---- MODULE Spec2Model ----
(***************************************************************************)
(* AIHE Meta-Framework: the calculation pipeline.                          *)
(*                                                                         *)
(* Two calculation engines live in the repository:                         *)
(*   - the 8-rule engine of calculations.py (Decimal weights, 10 context   *)
(*     factors), driven by calculate_complete_aihe_metrics in              *)
(*     assessments.py;                                                     *)
(*   - the engine of backend/app/core/calculations.py (8 context factors,  *)
(*     archetype base-weight tables), driven by crud_assessment.py.        *)
(*                                                                         *)
(* Numbers.  Every quantity is an exact fixed-point integer:               *)
(*   ist, soll, gap          tenths            (2.5  -> 25)                *)
(*   rule factors            tenths            (1.2  -> 12)                *)
(*   Decimal weights         units of 10^-7    (0.125 -> 1250000)          *)
(*   returned weights        thousandths       (0.125 -> 125)              *)
(*   eqi, rgi, si            units of 1/120000 (1.0  -> 120000)            *)
(*   sbs                     units of 1/360000                             *)
(*   10-factor context score units of 1/300                                *)
(*   reported metrics        thousandths                                   *)
(* A weight is multiplied at most four times by a one-decimal factor, so   *)
(* seven decimals hold every Decimal product exactly.  Python floats are   *)
(* taken as the exact values they approximate: round(x, 3) is computed on  *)
(* the exact x, and an exact tie (x = k.5 thousandths) goes to the even    *)
(* neighbour, where the float of the code may fall on either side of it.   *)
(* Where the stored value itself is such a tie (the means of two           *)
(* subdimension values in crud_assessment.py) both neighbours are possible *)
(* outcomes of the step.                                                   *)
(***************************************************************************)
EXTENDS Integers, Sequences, FiniteSets, TLC

VARIABLES
    dimension_scores,  \* the list of DimensionScore objects handed to the call
    context_factors,   \* the list of ContextFactor objects handed to the call
    archetype,         \* the archetype string
    is_kmu,            \* the KMU flag
    pc,                \* position inside calculate_complete_aihe_metrics
    call,              \* 1 for the first call on the objects, 2 for the second
    context_score,     \* local of the orchestrator (units of 1/300)
    archetyp_enum,     \* local of the orchestrator: the resolved Archetyp
    weights,           \* the weight dict the rules multiply in place
    dynamic_weights,   \* the dict returned by calculate_dynamic_weights
    metrics,           \* eqi, rgi, si, sbs as computed in step 4
    result,            \* the dict returned by the call
    first_result,      \* the dict returned by the first call
    args,              \* arguments of a single engine function under test
    ret,               \* its return value
    heap,              \* the dict objects several invocations can reach
    invocations,       \* the locals of each concurrent invocation
    db                 \* the stored assessment the completion requests are for

vars == <<dimension_scores, context_factors, archetype, is_kmu, pc, call,
          context_score, archetyp_enum, weights, dynamic_weights, metrics,
          result, first_result, args, ret, heap, invocations, db>>

concurrent_vars == <<heap, invocations>>

----------------------------------------------------------------------------
(* Arithmetic helpers *)

Abs(x) == IF x < 0 THEN -x ELSE x

Max2(a, b) == IF a > b THEN a ELSE b

Min2(a, b) == IF a < b THEN a ELSE b

\* max(0.0, min(1.0, x)) on a value whose 1.0 is `one`
Clamp01(x, one) == Max2(0, Min2(one, x))

\* Decimal * Decimal for a weight (10^-7) and a one-decimal factor (tenths)
MulDec(w, f) == (w * f) \div 10

\* nearest integer to n/d (n >= 0, d > 0), ties to the even neighbour:
\* round(x, 3) of a float x taken as exact
RoundHalfEven(n, d) ==
    LET q == n \div d
        r == n % d
    IN  IF 2 * r < d THEN q
        ELSE IF 2 * r > d THEN q + 1
        ELSE IF q % 2 = 0 THEN q ELSE q + 1

\* Decimal(w / s).quantize(Decimal('0.001'), ROUND_HALF_UP) in thousandths,
\* for 0 <= w <= s, by long division (one decimal digit per step)
QuantizeHalfUp(w, s) ==
    LET d1 == (w * 10) \div s
        r1 == (w * 10) % s
        d2 == (r1 * 10) \div s
        r2 == (r1 * 10) % s
        d3 == (r2 * 10) \div s
        r3 == (r2 * 10) % s
        q  == 100 * d1 + 10 * d2 + d3
    IN  IF 2 * r3 >= s THEN q + 1 ELSE q

----------------------------------------------------------------------------
(* calculations.py: Archetyp, DimensionScore, constants *)

ArchetypNames ==
    {"CHAOTIC_DOER", "CAUTIOUS_CORPORATE", "STAGNANT_ESTABLISHED",
     "BALANCED_TRANSFORMER"}

DimOrder == <<"D1", "D2", "D3", "D4", "D5", "D6", "D7", "D8">>

Dims == {DimOrder[i] : i \in 1..8}

\* DimensionScore.__init__: gap = abs(ist_value - soll_value)
DimensionScore(dimension_id, ist_value, soll_value, dynamic_weight) ==
    [dimension_id |-> dimension_id, ist_value |-> ist_value,
     soll_value |-> soll_value, dynamic_weight |-> dynamic_weight,
     gap |-> Abs(ist_value - soll_value)]

DEFAULT_DYNAMIC_WEIGHT == 125

SCHWELLENWERT_GAP == 15
SCHWELLENWERT_SPANNUNG == 30
SCHWELLENWERT_NIEDRIG == 60
SCHWELLENWERT_HOCH == 240
SCHWELLENWERT_IST == 35
ANPASSUNGSFAKTOR == 12
ANPASSUNGSFAKTOR_HOCH == 13
ANPASSUNGSFAKTOR_MITTEL == 11
ANPASSUNGSFAKTOR_DAEMPFUNG == 8
MINIMUM_GEWICHT == 100000

SPANNUNGSPAARE ==
    << <<"D1", "D2">>, <<"D1", "D3">>, <<"D1", "D4">>, <<"D1", "D5">>,
       <<"D2", "D3">>, <<"D2", "D6">>, <<"D3", "D4">>, <<"D3", "D6">>,
       <<"D4", "D5">>, <<"D5", "D6">>, <<"D6", "D7">>, <<"D7", "D8">> >>

\* {score.dimension_id: score for score in dimension_scores}: the last score
\* of an id wins
RECURSIVE ScoresDictFrom(_, _, _)
ScoresDictFrom(scores, i, acc) ==
    IF i > Len(scores) THEN acc
    ELSE ScoresDictFrom(scores, i + 1,
             [d \in DOMAIN acc \cup {scores[i].dimension_id} |->
                 IF d = scores[i].dimension_id THEN scores[i] ELSE acc[d]])

ScoresDict(scores) == ScoresDictFrom(scores, 1, <<>>)

----------------------------------------------------------------------------
(* calculations.py: DynamicWeightingEngine, the eight rules *)

KMU_BASE_WEIGHTS ==
    [d \in Dims |->
        IF d \in {"D2", "D3", "D4", "D7"} THEN 1500000 ELSE 1000000]

STANDARD_BASE_WEIGHTS == [d \in Dims |-> 1250000]

_load_base_weights(kmu) ==
    IF kmu THEN KMU_BASE_WEIGHTS ELSE STANDARD_BASE_WEIGHTS

RECURSIVE Rule1From(_, _, _)
Rule1From(w, scores, i) ==
    IF i > Len(scores) THEN w
    ELSE Rule1From(
             IF scores[i].gap <= SCHWELLENWERT_GAP
             THEN [w EXCEPT ![scores[i].dimension_id] = MulDec(@, ANPASSUNGSFAKTOR)]
             ELSE w,
             scores, i + 1)

_apply_rule_1_tight_gaps(w, scores) == Rule1From(w, scores, 1)

RECURSIVE Rule2From(_, _, _)
Rule2From(w, scores, i) ==
    IF i > Len(scores) THEN w
    ELSE Rule2From(
             IF scores[i].gap > SCHWELLENWERT_GAP
             THEN [w EXCEPT ![scores[i].dimension_id] = MulDec(@, ANPASSUNGSFAKTOR)]
             ELSE w,
             scores, i + 1)

\* rule 2 taking the threshold itself as a large gap (gap >= 1.5)
RECURSIVE Rule2FromThreshold(_, _, _)
Rule2FromThreshold(w, scores, i) ==
    IF i > Len(scores) THEN w
    ELSE Rule2FromThreshold(
             IF scores[i].gap >= SCHWELLENWERT_GAP
             THEN [w EXCEPT ![scores[i].dimension_id] = MulDec(@, ANPASSUNGSFAKTOR)]
             ELSE w,
             scores, i + 1)

Rule2IncludingThreshold(w, scores) == Rule2FromThreshold(w, scores, 1)

_apply_rule_2_large_gaps(w, scores) == Rule2From(w, scores, 1)

\* rule 3 with the two factors exchanged: 1.1 for the dimension further
\* behind, 1.3 for the other
Rule3FactorsSwapped(w, scores) ==
    LET scores_dict == ScoresDict(scores)
    IN  IF "D6" \in DOMAIN scores_dict /\ "D3" \in DOMAIN scores_dict
        THEN LET gap_d6 == scores_dict["D6"].ist_value - scores_dict["D6"].soll_value
                 gap_d3 == scores_dict["D3"].ist_value - scores_dict["D3"].soll_value
                 intensitaet == Abs(gap_d6 - gap_d3)
             IN  IF intensitaet > SCHWELLENWERT_SPANNUNG
                 THEN IF gap_d3 < gap_d6
                      THEN [w EXCEPT !["D3"] = MulDec(@, ANPASSUNGSFAKTOR_MITTEL),
                                     !["D6"] = MulDec(@, ANPASSUNGSFAKTOR_HOCH)]
                      ELSE [w EXCEPT !["D6"] = MulDec(@, ANPASSUNGSFAKTOR_MITTEL),
                                     !["D3"] = MulDec(@, ANPASSUNGSFAKTOR_HOCH)]
                 ELSE w
        ELSE w

_apply_rule_3_high_tension(w, scores) ==
    LET scores_dict == ScoresDict(scores)
    IN  IF "D6" \in DOMAIN scores_dict /\ "D3" \in DOMAIN scores_dict
        THEN LET gap_d6 == scores_dict["D6"].ist_value - scores_dict["D6"].soll_value
                 gap_d3 == scores_dict["D3"].ist_value - scores_dict["D3"].soll_value
                 intensitaet == Abs(gap_d6 - gap_d3)
             IN  IF intensitaet > SCHWELLENWERT_SPANNUNG
                 THEN IF gap_d3 < gap_d6
                      THEN [w EXCEPT !["D3"] = MulDec(@, ANPASSUNGSFAKTOR_HOCH),
                                     !["D6"] = MulDec(@, ANPASSUNGSFAKTOR_MITTEL)]
                      ELSE [w EXCEPT !["D6"] = MulDec(@, ANPASSUNGSFAKTOR_HOCH),
                                     !["D3"] = MulDec(@, ANPASSUNGSFAKTOR_MITTEL)]
                 ELSE w
        ELSE w

_apply_rule_4_context(w, ctx) ==
    IF ctx < SCHWELLENWERT_NIEDRIG
    THEN [w EXCEPT !["D7"] = MulDec(@, ANPASSUNGSFAKTOR)]
    ELSE IF ctx > SCHWELLENWERT_HOCH
    THEN [w EXCEPT !["D1"] = MulDec(@, ANPASSUNGSFAKTOR),
                   !["D2"] = MulDec(@, ANPASSUNGSFAKTOR)]
    ELSE w

_is_in_critical_tension(dimension_id, scores) == FALSE

RECURSIVE Rule5From(_, _, _)
Rule5From(w, scores, i) ==
    IF i > Len(scores) THEN w
    ELSE Rule5From(
             IF /\ scores[i].ist_value > SCHWELLENWERT_IST
                /\ scores[i].ist_value >= scores[i].soll_value
                /\ ~_is_in_critical_tension(scores[i].dimension_id, scores)
             THEN [w EXCEPT ![scores[i].dimension_id] =
                                MulDec(@, ANPASSUNGSFAKTOR_DAEMPFUNG)]
             ELSE w,
             scores, i + 1)

_apply_rule_5_above_average(w, scores) == Rule5From(w, scores, 1)

FactorTable(d1, d2, d3, d4, d5, d6, d7, d8) ==
    [d \in Dims |->
        CASE d = "D1" -> d1 [] d = "D2" -> d2 [] d = "D3" -> d3
          [] d = "D4" -> d4 [] d = "D5" -> d5 [] d = "D6" -> d6
          [] d = "D7" -> d7 [] OTHER -> d8]

\* _get_archetyp_factors with D6 of CHAOTIC_DOER mistyped as 0.1
FactorsWithTypo(archetyp) ==
    IF archetyp = "CHAOTIC_DOER"
    THEN FactorTable(15, 14, 9, 11, 11, 1, 13, 12)
    ELSE IF archetyp = "CAUTIOUS_CORPORATE"
    THEN FactorTable(8, 10, 15, 14, 10, 13, 10, 11)
    ELSE IF archetyp = "STAGNANT_ESTABLISHED"
    THEN FactorTable(12, 14, 13, 12, 10, 12, 10, 13)
    ELSE FactorTable(10, 10, 10, 10, 10, 10, 10, 10)

_get_archetyp_factors(archetyp) ==
    IF archetyp = "CHAOTIC_DOER"
    THEN FactorTable(15, 14, 9, 11, 11, 7, 13, 12)
    ELSE IF archetyp = "CAUTIOUS_CORPORATE"
    THEN FactorTable(8, 10, 15, 14, 10, 13, 10, 11)
    ELSE IF archetyp = "STAGNANT_ESTABLISHED"
    THEN FactorTable(12, 14, 13, 12, 10, 12, 10, 13)
    ELSE FactorTable(10, 10, 10, 10, 10, 10, 10, 10)

_apply_rule_6_archetyp(w, archetyp) ==
    LET faktoren == _get_archetyp_factors(archetyp)
    IN  [d \in DOMAIN w |->
            IF d \in DOMAIN faktoren THEN MulDec(w[d], faktoren[d]) ELSE w[d]]

\* the minimum security with a floor of 0.10 in place of 0.01
MinimumSecurityAtTenPercent(w) ==
    [d \in DOMAIN w |-> IF w[d] < 1000000 THEN 1000000 ELSE w[d]]

_apply_minimum_security(w) ==
    [d \in DOMAIN w |-> IF w[d] < MINIMUM_GEWICHT THEN MINIMUM_GEWICHT ELSE w[d]]

RECURSIVE SumOver(_, _, _)
SumOver(f, order, i) ==
    IF i > Len(order) THEN 0 ELSE f[order[i]] + SumOver(f, order, i + 1)

\* the first key that holds the smallest value
RECURSIVE FirstMinKey(_, _, _)
FirstMinKey(f, i, best) ==
    IF i > Len(DimOrder) THEN best
    ELSE FirstMinKey(f, i + 1, IF f[DimOrder[i]] < f[best] THEN DimOrder[i] ELSE best)

\* max(rounded_weights, key=rounded_weights.get): the first key, in the
\* dict's insertion order D1..D8, that holds the largest value
RECURSIVE FirstMaxKey(_, _, _)
FirstMaxKey(f, i, best) ==
    IF i > Len(DimOrder) THEN best
    ELSE FirstMaxKey(f, i + 1, IF f[DimOrder[i]] > f[best] THEN DimOrder[i] ELSE best)

\* _round_and_correct without its residual step: the rounded weights as they are
RoundWithoutCorrection(w) ==
    [d \in DOMAIN w |-> QuantizeHalfUp(w[d][1], w[d][2])]

\* w maps each dimension to the quotient weight / summe, kept as the pair
\* <<weight, summe>>; differenz is in thousandths, so abs(differenz) > 0.0001
\* reads 10 * |differenz| > 1
_round_and_correct(w) ==
    LET rounded_weights == [d \in DOMAIN w |-> QuantizeHalfUp(w[d][1], w[d][2])]
        summe == SumOver(rounded_weights, DimOrder, 1)
        differenz == 1000 - summe
        groesste_dimension == FirstMaxKey(rounded_weights, 2, DimOrder[1])
    IN  IF 10 * Abs(differenz) > 1
        THEN [rounded_weights EXCEPT ![groesste_dimension] = @ + differenz]
        ELSE rounded_weights

_normalize_weights(w) ==
    LET summe == SumOver(w, DimOrder, 1)
    IN  _round_and_correct([d \in DOMAIN w |-> <<w[d], summe>>])

calculate_dynamic_weights(scores, ctx, archetyp, kmu) ==
    _normalize_weights(
      _apply_minimum_security(
        _apply_rule_6_archetyp(
          _apply_rule_5_above_average(
            _apply_rule_4_context(
              _apply_rule_3_high_tension(
                _apply_rule_2_large_gaps(
                  _apply_rule_1_tight_gaps(_load_base_weights(kmu), scores),
                  scores),
                scores),
              ctx),
            scores),
          archetyp)))

----------------------------------------------------------------------------
(* calculations.py: AIHECalculationEngine *)

ONE == 1000 * 120

RECURSIVE TotalGap(_, _)
TotalGap(scores, i) ==
    IF i > Len(scores) THEN 0 ELSE scores[i].gap + TotalGap(scores, i + 1)

calculate_eqi(scores) == Clamp01(ONE - 500 * TotalGap(scores, 1), ONE)

RECURSIVE WeightedIst(_, _)
WeightedIst(scores, i) ==
    IF i > Len(scores) THEN 0
    ELSE scores[i].ist_value * scores[i].dynamic_weight + WeightedIst(scores, i + 1)

calculate_rgi(scores) == Clamp01(3 * WeightedIst(scores, 1), ONE)

RECURSIVE WeightedTension(_, _)
WeightedTension(scores_dict, i) ==
    IF i > Len(SPANNUNGSPAARE) THEN 0
    ELSE LET dim1 == SPANNUNGSPAARE[i][1]
             dim2 == SPANNUNGSPAARE[i][2]
         IN  (IF dim1 \in DOMAIN scores_dict /\ dim2 \in DOMAIN scores_dict
              THEN Abs(scores_dict[dim1].ist_value - scores_dict[dim2].ist_value)
                   * (scores_dict[dim1].dynamic_weight + scores_dict[dim2].dynamic_weight)
              ELSE 0)
             + WeightedTension(scores_dict, i + 1)

\* the tension of a pair taken between the gaps ist - soll, as the backend
\* engine does, instead of between the ist values
RECURSIVE GapTension(_, _)
GapTension(scores_dict, i) ==
    IF i > Len(SPANNUNGSPAARE) THEN 0
    ELSE LET dim1 == SPANNUNGSPAARE[i][1]
             dim2 == SPANNUNGSPAARE[i][2]
         IN  (IF dim1 \in DOMAIN scores_dict /\ dim2 \in DOMAIN scores_dict
              THEN Abs((scores_dict[dim1].ist_value - scores_dict[dim1].soll_value)
                       - (scores_dict[dim2].ist_value - scores_dict[dim2].soll_value))
                   * (scores_dict[dim1].dynamic_weight + scores_dict[dim2].dynamic_weight)
              ELSE 0)
             + GapTension(scores_dict, i + 1)

TensionOfGaps(scores) == Clamp01(GapTension(ScoresDict(scores), 1), ONE)

calculate_si(scores) == Clamp01(WeightedTension(ScoresDict(scores), 1), ONE)

\* (eqi + (1 - si) + rgi) / 3 in units of 1/360000
calculate_sbs(eqi, si, rgi) == Clamp01(eqi + (ONE - si) + rgi, 3 * ONE)

CONTEXT_WEIGHTS == <<12, 11, 10, 9, 11, 10, 12, 8, 9, 8>>

RECURSIVE WeightedFactors(_, _)
WeightedFactors(factors, i) ==
    IF i > Len(factors) THEN 0
    ELSE factors[i].factor_value * CONTEXT_WEIGHTS[i] + WeightedFactors(factors, i + 1)

\* calculate_context_score returning weighted_sum itself (1.0 is 300, so the
\* sum in hundredths counts three times)
ContextScoreUnscaled(factors) ==
    IF Len(factors) = 0 \/ Len(factors) # 10 THEN 150
    ELSE 3 * WeightedFactors(factors, 1)

\* units of 1/300: weighted_sum / 3.0 with the weights in hundredths
calculate_context_score(factors) ==
    IF Len(factors) = 0 \/ Len(factors) # 10 THEN 150
    ELSE Clamp01(WeightedFactors(factors, 1), 300)

----------------------------------------------------------------------------
(* calculations.py: GapAnalysisEngine *)

\* the gap taken with its sign
SignedGap(ist_value, soll_value) ==
    <<soll_value - ist_value, (soll_value - ist_value) * 250>>

\* gap in tenths, gap_percent in hundredths of a percent
calculate_subdimension_gap(ist_value, soll_value) ==
    LET gap == Abs(ist_value - soll_value)
    IN  <<gap, gap * 250>>

calculate_priority_level(ist_value, gap) ==
    IF ist_value < 20 /\ gap > 15 THEN "CRITICAL"
    ELSE IF ist_value < 25 /\ gap > 10 THEN "HIGH"
    ELSE IF gap > 8 THEN "HIGH"
    ELSE IF gap > 5 THEN "MEDIUM"
    ELSE "LOW"

priority_order(p) ==
    CASE p = "CRITICAL" -> 0 [] p = "HIGH" -> 1 [] p = "MEDIUM" -> 2 [] OTHER -> 3

\* the sort key with the gap's sign lost: (priority_order[...], x["gap"])
KeyLessGapAscending(x, y) ==
    \/ priority_order(x.priority) < priority_order(y.priority)
    \/ /\ priority_order(x.priority) = priority_order(y.priority)
       /\ x.gap < y.gap

\* the sort key (priority_order[x["priority"]], -x["gap"]), compared as tuples
KeyLess(x, y) ==
    \/ priority_order(x.priority) < priority_order(y.priority)
    \/ /\ priority_order(x.priority) = priority_order(y.priority)
       /\ -x.gap < -y.gap

\* list.sort is stable: a record goes behind every record whose key is not
\* greater than its own
RECURSIVE InsertSorted(_, _, _)
InsertSorted(sorted, x, i) ==
    IF i > Len(sorted) THEN Append(sorted, x)
    ELSE IF KeyLess(x, sorted[i])
    THEN SubSeq(sorted, 1, i - 1) \o <<x>> \o SubSeq(sorted, i, Len(sorted))
    ELSE InsertSorted(sorted, x, i + 1)

RECURSIVE SortByKey(_, _, _)
SortByKey(recs, i, acc) ==
    IF i > Len(recs) THEN acc
    ELSE SortByKey(recs, i + 1, InsertSorted(acc, recs[i], 1))

\* the filter of generate_recommendations letting MEDIUM through as well
RECURSIVE CollectWithMedium(_, _)
CollectWithMedium(scores, i) ==
    IF i > Len(scores) THEN <<>>
    ELSE LET g == calculate_subdimension_gap(scores[i].ist_value, scores[i].soll_value)
             priority == calculate_priority_level(scores[i].ist_value, g[1])
         IN  (IF priority \in {"CRITICAL", "HIGH", "MEDIUM"}
              THEN << [dimension_id |-> scores[i].dimension_id,
                       priority |-> priority,
                       gap |-> g[1],
                       gap_percent |-> g[2],
                       ist_value |-> scores[i].ist_value,
                       soll_value |-> scores[i].soll_value] >>
              ELSE <<>>)
             \o CollectWithMedium(scores, i + 1)

\* the filter of generate_recommendations letting only CRITICAL through
RECURSIVE CollectOnlyCritical(_, _)
CollectOnlyCritical(scores, i) ==
    IF i > Len(scores) THEN <<>>
    ELSE LET g == calculate_subdimension_gap(scores[i].ist_value, scores[i].soll_value)
             priority == calculate_priority_level(scores[i].ist_value, g[1])
         IN  (IF priority \in {"CRITICAL"}
              THEN << [dimension_id |-> scores[i].dimension_id,
                       priority |-> priority,
                       gap |-> g[1],
                       gap_percent |-> g[2],
                       ist_value |-> scores[i].ist_value,
                       soll_value |-> scores[i].soll_value] >>
              ELSE <<>>)
             \o CollectOnlyCritical(scores, i + 1)

RECURSIVE CollectRecommendations(_, _)
CollectRecommendations(scores, i) ==
    IF i > Len(scores) THEN <<>>
    ELSE LET g == calculate_subdimension_gap(scores[i].ist_value, scores[i].soll_value)
             priority == calculate_priority_level(scores[i].ist_value, g[1])
         IN  (IF priority \in {"CRITICAL", "HIGH"}
              THEN << [dimension_id |-> scores[i].dimension_id,
                       priority |-> priority,
                       gap |-> g[1],
                       gap_percent |-> g[2],
                       ist_value |-> scores[i].ist_value,
                       soll_value |-> scores[i].soll_value] >>
              ELSE <<>>)
             \o CollectRecommendations(scores, i + 1)

generate_recommendations(scores) ==
    SortByKey(CollectRecommendations(scores, 1), 1, <<>>)

----------------------------------------------------------------------------
(* assessments.py: calculate_complete_aihe_metrics, statement by statement *)

\* the ValueError handler falling back to the first member of the enum
ResolveArchetypFirstMember(name) ==
    IF name \in ArchetypNames THEN name ELSE "CHAOTIC_DOER"

\* Archetyp(archetype), with the ValueError handler's fallback
ResolveArchetyp(name) ==
    IF name \in ArchetypNames THEN name ELSE "BALANCED_TRANSFORMER"

RECURSIVE AttachWeights(_, _, _)
AttachWeights(scores, dw, i) ==
    IF i > Len(scores) THEN scores
    ELSE AttachWeights(
             IF scores[i].dimension_id \in DOMAIN dw
             THEN [scores EXCEPT ![i].dynamic_weight = dw[scores[i].dimension_id]]
             ELSE scores,
             dw, i + 1)

RECURSIVE DimensionAnalysis(_, _)
DimensionAnalysis(scores, i) ==
    IF i > Len(scores) THEN <<>>
    ELSE LET g == calculate_subdimension_gap(scores[i].ist_value, scores[i].soll_value)
         IN  << [dimension_id |-> scores[i].dimension_id,
                 ist_value |-> scores[i].ist_value,
                 soll_value |-> scores[i].soll_value,
                 gap |-> g[1],
                 gap_percent |-> g[2],
                 priority |-> calculate_priority_level(scores[i].ist_value, g[1]),
                 dynamic_weight |-> scores[i].dynamic_weight] >>
             \o DimensionAnalysis(scores, i + 1)

RECURSIVE CriticalDimensions(_, _)
CriticalDimensions(scores, i) ==
    IF i > Len(scores) THEN <<>>
    ELSE (IF scores[i].ist_value < 20 /\ scores[i].gap > 15
          THEN <<scores[i].dimension_id>> ELSE <<>>)
         \o CriticalDimensions(scores, i + 1)

RECURSIVE HighPriorityDimensions(_, _)
HighPriorityDimensions(scores, i) ==
    IF i > Len(scores) THEN <<>>
    ELSE (IF scores[i].ist_value < 25 /\ scores[i].gap > 10
          THEN <<scores[i].dimension_id>> ELSE <<>>)
         \o HighPriorityDimensions(scores, i + 1)

\* round(x, 3) of the five metrics, in thousandths
CoreMetrics(m, ctx) ==
    [eqi |-> RoundHalfEven(m.eqi, 120),
     rgi |-> RoundHalfEven(m.rgi, 120),
     si |-> RoundHalfEven(m.si, 120),
     sbs |-> RoundHalfEven(m.sbs, 360),
     context_score |-> RoundHalfEven(10 * ctx, 3)]

RECURSIVE SumIst(_, _)
SumIst(scores, i) ==
    IF i > Len(scores) THEN 0 ELSE scores[i].ist_value + SumIst(scores, i + 1)

RECURSIVE SumSoll(_, _)
SumSoll(scores, i) ==
    IF i > Len(scores) THEN 0 ELSE scores[i].soll_value + SumSoll(scores, i + 1)

\* sum(...) / len(dimension_scores) in units of 1/8400 (exact for 1 to 8
\* scores in tenths)
Mean(total, n) == (840 * total) \div n

\* what the call raises when sum(...) / len(dimension_scores) divides by zero
ZeroDivisionError == [raised |-> "ZeroDivisionError"]

\* the return statement: the dict, or the exception of a division in it
AssembleResult(scores, m, ctx, dw, arch, kmu) ==
    IF Len(scores) = 0 THEN ZeroDivisionError
    ELSE
    [core_metrics |-> CoreMetrics(m, ctx),
     dynamic_weights |-> dw,
     dimension_analysis |-> DimensionAnalysis(scores, 1),
     recommendations |-> generate_recommendations(scores),
     metadata |->
        [archetype |-> arch,
         is_kmu |-> kmu,
         total_gap |-> TotalGap(scores, 1),
         average_ist_value |-> Mean(SumIst(scores, 1), Len(scores)),
         average_soll_value |-> Mean(SumSoll(scores, 1), Len(scores)),
         critical_dimensions |-> CriticalDimensions(scores, 1),
         high_priority_dimensions |-> HighPriorityDimensions(scores, 1)]]

\* the whole call as a function of its arguments
calculate_complete_aihe_metrics(scores, factors, arch, kmu) ==
    LET ctx == calculate_context_score(factors)
        dw == calculate_dynamic_weights(scores, ctx, ResolveArchetyp(arch), kmu)
        attached == AttachWeights(scores, dw, 1)
        eqi == calculate_eqi(attached)
        rgi == calculate_rgi(attached)
        si == calculate_si(attached)
        m == [eqi |-> eqi, rgi |-> rgi, si |-> si, sbs |-> calculate_sbs(eqi, si, rgi)]
    IN  AssembleResult(attached, m, ctx, dw, arch, kmu)

None == "None"

Step1_ContextScore ==
    /\ pc = "step1"
    /\ context_score' = calculate_context_score(context_factors)
    /\ pc' = "step2"
    /\ UNCHANGED <<dimension_scores, context_factors, archetype, is_kmu, call,
                   archetyp_enum, weights, dynamic_weights, metrics, result,
                   first_result, args, ret>>
    /\ UNCHANGED <<concurrent_vars, db>>

Step2_ResolveArchetyp ==
    /\ pc = "step2"
    /\ archetyp_enum' = ResolveArchetyp(archetype)
    /\ pc' = "load_base_weights"
    /\ UNCHANGED <<dimension_scores, context_factors, archetype, is_kmu, call,
                   context_score, weights, dynamic_weights, metrics, result,
                   first_result, args, ret>>
    /\ UNCHANGED <<concurrent_vars, db>>

\* one rule of calculate_dynamic_weights: weights = rule(weights, ...)
RuleStep(at, next, new_weights) ==
    /\ pc = at
    /\ weights' = new_weights
    /\ pc' = next
    /\ UNCHANGED <<dimension_scores, context_factors, archetype, is_kmu, call,
                   context_score, archetyp_enum, dynamic_weights, metrics,
                   result, first_result, args, ret>>
    /\ UNCHANGED <<concurrent_vars, db>>

\* step 1 starting from the weights the scores carry (0.125 on a fresh
\* DimensionScore) where no KMU table applies
LoadBaseWeightsFromScores ==
    RuleStep("load_base_weights", "rule1",
             IF is_kmu THEN KMU_BASE_WEIGHTS
             ELSE [d \in Dims |->
                      IF d \in DOMAIN ScoresDict(dimension_scores)
                      THEN 10000 * ScoresDict(dimension_scores)[d].dynamic_weight
                      ELSE 10000 * DEFAULT_DYNAMIC_WEIGHT])

LoadBaseWeights ==
    RuleStep("load_base_weights", "rule1", _load_base_weights(is_kmu))

Rule1 ==
    RuleStep("rule1", "rule2", _apply_rule_1_tight_gaps(weights, dimension_scores))

Rule2 ==
    RuleStep("rule2", "rule3", _apply_rule_2_large_gaps(weights, dimension_scores))

Rule3 ==
    RuleStep("rule3", "rule4", _apply_rule_3_high_tension(weights, dimension_scores))

Rule4 ==
    RuleStep("rule4", "rule5", _apply_rule_4_context(weights, context_score))

Rule5 ==
    RuleStep("rule5", "rule6", _apply_rule_5_above_average(weights, dimension_scores))

Rule6 ==
    RuleStep("rule6", "minimum", _apply_rule_6_archetyp(weights, archetyp_enum))

MinimumSecurity ==
    RuleStep("minimum", "normalize", _apply_minimum_security(weights))

NormalizeWeights ==
    /\ pc = "normalize"
    /\ dynamic_weights' = _normalize_weights(weights)
    /\ pc' = "step3"
    /\ UNCHANGED <<dimension_scores, context_factors, archetype, is_kmu, call,
                   context_score, archetyp_enum, weights, metrics, result,
                   first_result, args, ret>>
    /\ UNCHANGED <<concurrent_vars, db>>

\* step 3 leaving the scores as they came
Step3_SkipWeights ==
    /\ pc = "step3"
    /\ dimension_scores' = dimension_scores
    /\ pc' = "step4"
    /\ UNCHANGED <<context_factors, archetype, is_kmu, call, context_score,
                   archetyp_enum, weights, dynamic_weights, metrics, result,
                   first_result, args, ret>>
    /\ UNCHANGED <<concurrent_vars, db>>

Step3_ApplyWeights ==
    /\ pc = "step3"
    /\ dimension_scores' = AttachWeights(dimension_scores, dynamic_weights, 1)
    /\ pc' = "step4"
    /\ UNCHANGED <<context_factors, archetype, is_kmu, call, context_score,
                   archetyp_enum, weights, dynamic_weights, metrics, result,
                   first_result, args, ret>>
    /\ UNCHANGED <<concurrent_vars, db>>

Step4_CoreMetrics ==
    /\ pc = "step4"
    /\ LET eqi == calculate_eqi(dimension_scores)
           rgi == calculate_rgi(dimension_scores)
           si == calculate_si(dimension_scores)
       IN  metrics' = [eqi |-> eqi, rgi |-> rgi, si |-> si,
                       sbs |-> calculate_sbs(eqi, si, rgi)]
    /\ pc' = "step5"
    /\ UNCHANGED <<dimension_scores, context_factors, archetype, is_kmu, call,
                   context_score, archetyp_enum, weights, dynamic_weights,
                   result, first_result, args, ret>>
    /\ UNCHANGED <<concurrent_vars, db>>

\* steps 5 and 6 and the return statement
Step5_Return ==
    /\ pc = "step5"
    /\ result' = AssembleResult(dimension_scores, metrics, context_score,
                                dynamic_weights, archetype, is_kmu)
    /\ pc' = IF Len(dimension_scores) = 0 THEN "raised" ELSE "done"
    /\ UNCHANGED <<dimension_scores, context_factors, archetype, is_kmu, call,
                   context_score, archetyp_enum, weights, dynamic_weights,
                   metrics, first_result, args, ret>>
    /\ UNCHANGED <<concurrent_vars, db>>

\* the caller hands the same objects to a second call
CallAgain ==
    /\ pc = "done"
    /\ call = 1
    /\ call' = 2
    /\ first_result' = result
    /\ pc' = "step1"
    /\ context_score' = None
    /\ archetyp_enum' = None
    /\ weights' = None
    /\ dynamic_weights' = None
    /\ metrics' = None
    /\ result' = None
    /\ UNCHANGED <<dimension_scores, context_factors, archetype, is_kmu, args, ret>>
    /\ UNCHANGED <<concurrent_vars, db>>

----------------------------------------------------------------------------
(* The inputs *)

\* (ist, soll) pairs in tenths a dimension is scored with
PairList ==
    << <<25, 30>>, <<10, 40>>, <<40, 10>>, <<19, 30>>, <<36, 36>>, <<30, 39>> >>

NumPairs == 4

ScorePairs == {PairList[i] : i \in 1..Min2(NumPairs, Len(PairList))}

FACTOR_NAMES ==
    <<"Organisationsgröße", "Branchendynamik", "Regulatorischer Druck",
      "Technologische Komplexität", "Change-Historie", "Marktdynamik",
      "Wettbewerbsdruck", "Ressourcenverfügbarkeit", "Digitalisierungsgrad",
      "Innovationsdruck">>

ContextFactor(factor_name, factor_value) ==
    [factor_name |-> factor_name, factor_value |-> factor_value]

\* no factors (the neutral 0.5), ten factors at 0 and ten factors at 3
ContextInputs ==
    LET UniformFactors(v) == [i \in 1..10 |-> ContextFactor(FACTOR_NAMES[i], v)]
    IN  {<<>>, UniformFactors(0), UniformFactors(3)}

ArchetypeInputs == ArchetypNames \cup {"NOT_A_REAL_TYPE"}

\* eight fresh scores D1..D8, or no scores at all.  The dimensions whose
\* scores vary: rule 3 reads D3 and D6, rule 4 changes D1 and D7; the other
\* dimensions keep the first pair of PairList.  One more list mixes gaps
\* of exactly 1.5 (in both directions), a gap of 0.7 and the other pairs
DimensionScoreInputs ==
    LET VariedDims == {"D1", "D3", "D6", "D7"}
        MixedPairs == << <<15, 30>>, <<25, 32>>, <<30, 15>>, <<10, 40>>,
                         <<36, 36>>, <<30, 39>>, <<19, 30>>, <<25, 30>> >>
    IN  {[i \in 1..8 |->
             LET pair == IF DimOrder[i] \in VariedDims
                         THEN p[DimOrder[i]] ELSE PairList[1]
             IN  DimensionScore(DimOrder[i], pair[1], pair[2], DEFAULT_DYNAMIC_WEIGHT)] :
            p \in [VariedDims -> ScorePairs]}
        \cup {[i \in 1..8 |->
                  DimensionScore(DimOrder[i], MixedPairs[i][1], MixedPairs[i][2],
                                 DEFAULT_DYNAMIC_WEIGHT)]}
        \cup {<<>>}

Init ==
    /\ dimension_scores \in DimensionScoreInputs
    /\ context_factors \in ContextInputs
    /\ archetype \in ArchetypeInputs
    /\ is_kmu \in BOOLEAN
    /\ pc = "step1"
    /\ call = 1
    /\ context_score = None
    /\ archetyp_enum = None
    /\ weights = None
    /\ dynamic_weights = None
    /\ metrics = None
    /\ result = None
    /\ first_result = None
    /\ args = None
    /\ ret = None
    /\ heap = None
    /\ invocations = None
    /\ db = None

Next ==
    \/ Step1_ContextScore
    \/ Step2_ResolveArchetyp
    \/ LoadBaseWeights
    \/ Rule1
    \/ Rule2
    \/ Rule3
    \/ Rule4
    \/ Rule5
    \/ Rule6
    \/ MinimumSecurity
    \/ NormalizeWeights
    \/ Step3_ApplyWeights
    \/ Step4_CoreMetrics
    \/ Step5_Return
    \/ CallAgain

Spec == Init /\ [][Next]_vars

----------------------------------------------------------------------------
(* Properties of the 8-rule pipeline, checked under Spec *)

WeightSum(w) == SumOver(w, DimOrder, 1)

\* the sum of the eight weights as rounded, before the residual is added
RoundedSum(w) ==
    WeightSum([d \in Dims |-> QuantizeHalfUp(w[d], WeightSum(w))])

Returned == pc \in {"step3", "step4", "step5", "done"}

\* C1: the eight weights calculate_dynamic_weights returns sum to 1.000
\* within 1e-3, for every input
C1_WeightsSumToOne ==
    Returned => Abs(WeightSum(dynamic_weights) - 1000) <= 1

\* C1 witness: weights were returned whose rounded values were 0.002 or more
\* off 1.000 before the residual correction
C1_Witness ==
    /\ pc = "step3"
    /\ Abs(1000 - RoundedSum(weights)) >= 2
    /\ archetype \in ArchetypNames

\* C2: every one of the eight returned weights is at least 0.01
C2_WeightsAtLeastMinimum ==
    Returned => \A d \in Dims : dynamic_weights[d] >= 10

\* C2 witness: weights were returned for a dampened D6 of a CHAOTIC_DOER, the
\* smallest weight the rules produce (0.0672 before normalisation), with a
\* negative residual taken off the largest weight
C2_Witness ==
    /\ pc = "step3"
    /\ weights["D6"] = 672000
    /\ RoundedSum(weights) > 1000
    /\ \A d \in Dims : dynamic_weights[d] >= 10

\* C3: eqi, rgi, si, sbs and context_score of the result lie in [0.0, 1.0]
C3_CoreMetricsInUnitInterval ==
    pc = "done" =>
        /\ result.core_metrics.eqi \in 0..1000
        /\ result.core_metrics.rgi \in 0..1000
        /\ result.core_metrics.si \in 0..1000
        /\ result.core_metrics.sbs \in 0..1000
        /\ result.core_metrics.context_score \in 0..1000

\* C3 witness: a result with the largest context score, a low eqi and a
\* positive si
C3_Witness ==
    /\ pc = "done"
    /\ result.core_metrics.context_score = 1000
    /\ result.core_metrics.eqi < 500
    /\ result.core_metrics.si > 0
    /\ result.core_metrics.rgi > 0

\* C4: along the returned recommendations the priority rank never decreases,
\* and between adjacent records of equal rank the gap never increases
C4_RecommendationsSorted ==
    pc = "done" =>
        \A i \in 1..(Len(result.recommendations) - 1) :
            LET x == result.recommendations[i]
                y == result.recommendations[i + 1]
            IN  /\ priority_order(x.priority) <= priority_order(y.priority)
                /\ priority_order(x.priority) = priority_order(y.priority)
                       => x.gap >= y.gap

DimIndex(d) == CHOOSE i \in 1..8 : DimOrder[i] = d

\* C4 witness: a returned list with both ranks and two gaps within one rank,
\* in which the sort moved a later dimension before an earlier one
C4_Witness ==
    /\ pc = "done"
    /\ \E i, j, k \in 1..Len(result.recommendations) :
          /\ i < j
          /\ j < k
          /\ result.recommendations[i].priority = "CRITICAL"
          /\ result.recommendations[j].priority = "HIGH"
          /\ result.recommendations[k].priority = "HIGH"
          /\ result.recommendations[j].gap > result.recommendations[k].gap
          /\ DimIndex(result.recommendations[i].dimension_id)
                 > DimIndex(result.recommendations[k].dimension_id)

\* C5: a second call on the same objects, which carry the weights the first
\* call attached, returns what the first call returned
C5_SecondCallSameResult ==
    (pc = "done" /\ call = 2) => result = first_result

\* C5 witness: the second call has returned, on scores whose attached weights
\* differ from the 0.125 they were built with
C5_Witness ==
    /\ pc = "done"
    /\ call = 2
    /\ \E i \in 1..8 : dimension_scores[i].dynamic_weight # DEFAULT_DYNAMIC_WEIGHT
    /\ first_result.dynamic_weights = result.dynamic_weights

\* C10 as claimed: an unknown archetype string loads base weights of 0.125
\* for every dimension and gives the weights and metrics of
\* BALANCED_TRANSFORMER
C10_Original ==
    archetype \notin ArchetypNames =>
        /\ pc = "rule1" => \A d \in Dims : weights[d] = 1250000
        /\ pc = "done" =>
              LET balanced == calculate_complete_aihe_metrics(
                                  dimension_scores, context_factors,
                                  "BALANCED_TRANSFORMER", is_kmu)
              IN  /\ result.dynamic_weights = balanced.dynamic_weights
                  /\ result.core_metrics = balanced.core_metrics

\* C10 amended: an unknown archetype string gives the weights and metrics of
\* BALANCED_TRANSFORMER; the base weights are 0.125 for every dimension when
\* is_kmu is false, and the KMU table when it is true
C10_UnknownArchetypeIsBalanced ==
    archetype \notin ArchetypNames =>
        /\ pc = "load_base_weights" => archetyp_enum = "BALANCED_TRANSFORMER"
        /\ pc = "rule1" =>
              IF is_kmu THEN weights = KMU_BASE_WEIGHTS
              ELSE \A d \in Dims : weights[d] = 1250000
        /\ pc = "done" =>
              LET balanced == calculate_complete_aihe_metrics(
                                  dimension_scores, context_factors,
                                  "BALANCED_TRANSFORMER", is_kmu)
              IN  /\ result.dynamic_weights = balanced.dynamic_weights
                  /\ result.core_metrics = balanced.core_metrics

\* C10 witness: a call with the unknown archetype has returned, for a KMU,
\* with weights that are not all equal
C10_Witness ==
    /\ pc = "done"
    /\ archetype = "NOT_A_REAL_TYPE"
    /\ is_kmu
    /\ result.dynamic_weights["D1"] # result.dynamic_weights["D2"]

\* C12 as claimed: calculate_complete_aihe_metrics on an empty list of
\* dimension scores does not raise and returns 0.0 for eqi, rgi and si
C12_Original ==
    (Len(dimension_scores) = 0 /\ pc \in {"done", "raised"}) =>
        /\ pc = "done"
        /\ result.core_metrics.eqi = 0
        /\ result.core_metrics.rgi = 0
        /\ result.core_metrics.si = 0

\* sum of ist_i * w_i over the dimensions of the result, ist in tenths and
\* w the weight the result returns for the dimension, in thousandths
RECURSIVE IstTimesReturnedWeight(_, _, _)
IstTimesReturnedWeight(analysis, w, k) ==
    IF k > Len(analysis) THEN 0
    ELSE analysis[k].ist_value * w[analysis[k].dimension_id]
         + IstTimesReturnedWeight(analysis, w, k + 1)

\* C15: the rgi of the result is (sum of ist_i * w_i) / 4.0 rounded to 3
\* decimals with w_i the dynamic weights of the same result, which are the
\* weights the dimension scores carry when the metrics are computed
C15_RgiUsesReturnedWeights ==
    pc = "done" =>
        /\ \A k \in 1..Len(result.dimension_analysis) :
              result.dimension_analysis[k].dynamic_weight =
                  result.dynamic_weights[result.dimension_analysis[k].dimension_id]
        /\ 2 * Abs(40 * result.core_metrics.rgi
                   - IstTimesReturnedWeight(result.dimension_analysis,
                                            result.dynamic_weights, 1)) <= 40

\* C15 witness: eight dimensions at ist 2.5, all with the returned weight
\* 0.125, have given rgi 0.625; so has a call whose returned weights differ
\* from the 0.125 the scores came with
C15_Witness ==
    /\ pc = "done"
    /\ call = 1
    /\ \A k \in 1..8 : result.dimension_analysis[k].ist_value = 25
    /\ \A d \in Dims : result.dynamic_weights[d] = 125
    /\ result.core_metrics.rgi = 625

\* C17 as claimed: the sbs of the result is (eqi + (1 - si) + rgi) / 3
\* rounded to 3 decimals, with eqi, si and rgi as the result reports them
C17_Original ==
    pc = "done" =>
        2 * Abs(3 * result.core_metrics.sbs
                - (result.core_metrics.eqi + (1000 - result.core_metrics.si)
                   + result.core_metrics.rgi)) <= 3

----------------------------------------------------------------------------
(* backend/app/core/calculations.py: context score and priority level *)

EXPECTED_FACTORS ==
    <<"Organisationsgröße", "Branchendynamik", "Regulatorischer Druck",
      "Technologische Komplexität", "Change-Historie", "Marktdynamik",
      "Wettbewerbsdruck", "Ressourcenverfügbarkeit">>

\* factor_values[factor.factor_name] = factor.factor_value, in list order
RECURSIVE FactorValuesFrom(_, _, _)
FactorValuesFrom(factors, i, acc) ==
    IF i > Len(factors) THEN acc
    ELSE FactorValuesFrom(factors, i + 1,
             [n \in DOMAIN acc \cup {factors[i].factor_name} |->
                 IF n = factors[i].factor_name THEN factors[i].factor_value
                 ELSE acc[n]])

RECURSIVE TotalScoreFrom(_, _)
TotalScoreFrom(factor_values, i) ==
    IF i > Len(EXPECTED_FACTORS) THEN 0
    ELSE LET factor_name == EXPECTED_FACTORS[i]
             value == IF factor_name \in DOMAIN factor_values
                      THEN factor_values[factor_name] ELSE 1
         IN  (IF factor_name = "Ressourcenverfügbarkeit" THEN 3 - value ELSE value)
             + TotalScoreFrom(factor_values, i + 1)

\* the total without the inversion of Ressourcenverfügbarkeit
RECURSIVE TotalScoreNotInverted(_, _)
TotalScoreNotInverted(factor_values, i) ==
    IF i > Len(EXPECTED_FACTORS) THEN 0
    ELSE (IF EXPECTED_FACTORS[i] \in DOMAIN factor_values
          THEN factor_values[EXPECTED_FACTORS[i]] ELSE 1)
         + TotalScoreNotInverted(factor_values, i + 1)

\* backend calculate_context_score with the special handling left out
BackendContextScoreNotInverted(factors) ==
    IF Len(factors) = 0 THEN 500
    ELSE RoundHalfEven(
             1000 * TotalScoreNotInverted(FactorValuesFrom(factors, 1, <<>>), 1), 24)

\* thousandths: round(total_score / 24.0, 3)
backend_calculate_context_score(factors) ==
    IF Len(factors) = 0 THEN 500
    ELSE RoundHalfEven(
             1000 * TotalScoreFrom(FactorValuesFrom(factors, 1, <<>>), 1), 24)

\* the cascade with the thresholds 0.8 and 0.5 in its last two tests
PriorityWithLowerThresholds(ist_value, gap) ==
    IF ist_value < 20 /\ gap > 15 THEN "CRITICAL"
    ELSE IF ist_value < 25 /\ gap > 10 THEN "HIGH"
    ELSE IF gap > 8 THEN "HIGH"
    ELSE IF gap > 5 THEN "MEDIUM"
    ELSE "LOW"

backend_calculate_priority_level(ist_value, gap) ==
    IF ist_value < 20 /\ gap > 15 THEN "CRITICAL"
    ELSE IF ist_value < 25 /\ gap > 10 THEN "HIGH"
    ELSE IF gap > 15 THEN "HIGH"
    ELSE IF gap > 8 THEN "MEDIUM"
    ELSE "LOW"

TENSION_PAIRS ==
    << <<"D6", "D3">>, <<"D1", "D6">>, <<"D2", "D4">>, <<"D5", "D7">>,
       <<"D1", "D8">>, <<"D3", "D4">>, <<"D2", "D1">>, <<"D6", "D5">>,
       <<"D7", "D8">>, <<"D3", "D1">>, <<"D4", "D6">>, <<"D2", "D7">> >>

\* sum(abs(float(score.ist_value) - float(score.soll_value))), in tenths
RECURSIVE BackendTotalGap(_, _)
BackendTotalGap(scores, i) ==
    IF i > Len(scores) THEN 0
    ELSE Abs(scores[i].ist_value - scores[i].soll_value) + BackendTotalGap(scores, i + 1)

\* calculate_eqi with max_possible_gap = 8 * 4.0
BackendEqiMaxDiffFour(scores) ==
    IF Len(scores) = 0 \/ Len(scores) # 8 THEN 0
    ELSE RoundHalfEven(1000 * (320 - Min2(320, BackendTotalGap(scores, 1))), 320)

\* thousandths: round(1.0 - min(1.0, total_gap / 24.0), 3)
backend_calculate_eqi(scores) ==
    IF Len(scores) = 0 \/ Len(scores) # 8 THEN 0
    ELSE RoundHalfEven(1000 * (240 - Min2(240, BackendTotalGap(scores, 1))), 240)

\* thousandths: round(weighted_sum / 4.0, 3), ist in tenths and the weights
\* in thousandths
backend_calculate_rgi(scores) ==
    IF Len(scores) = 0 \/ Len(scores) # 8 THEN 0
    ELSE RoundHalfEven(WeightedIst(scores, 1), 40)

\* the sum of abs(gap_a - gap_b) over the pairs, in tenths; pair_weight is 1/12
RECURSIVE BackendTotalTension(_, _)
BackendTotalTension(scores_dict, i) ==
    IF i > Len(TENSION_PAIRS) THEN 0
    ELSE LET dim_a == TENSION_PAIRS[i][1]
             dim_b == TENSION_PAIRS[i][2]
         IN  (IF dim_a \in DOMAIN scores_dict /\ dim_b \in DOMAIN scores_dict
              THEN Abs((scores_dict[dim_a].ist_value - scores_dict[dim_a].soll_value)
                       - (scores_dict[dim_b].ist_value - scores_dict[dim_b].soll_value))
              ELSE 0)
             + BackendTotalTension(scores_dict, i + 1)

\* thousandths: round(min(total_tension / 6.0, 1.0), 3); total_tension is the
\* sum in tenths over 12
backend_calculate_si(scores) ==
    IF Len(scores) = 0 \/ Len(scores) # 8 THEN 0
    ELSE RoundHalfEven(
             1000 * Min2(BackendTotalTension(ScoresDict(scores), 1), 720), 720)

\* thousandths: round((eqi + (1.0 - si) + rgi) / 3.0, 3) of values in
\* thousandths
backend_calculate_sbs(eqi, si, rgi) == RoundHalfEven(eqi + (1000 - si) + rgi, 3)

backend_calculate_all_metrics(scores, factors) ==
    LET eqi == backend_calculate_eqi(scores)
        rgi == backend_calculate_rgi(scores)
        si == backend_calculate_si(scores)
    IN  [eqi |-> eqi, rgi |-> rgi, si |-> si,
         sbs |-> backend_calculate_sbs(eqi, si, rgi),
         context_score |-> backend_calculate_context_score(factors)]

\* base weights per archetype, in thousandths
ARCHETYPE_WEIGHTS ==
    [CHAOTIC_DOER |-> FactorTable(200, 180, 100, 120, 120, 80, 100, 100),
     CAUTIOUS_CORPORATE |-> FactorTable(150, 150, 150, 150, 100, 120, 80, 100),
     STAGNANT_ESTABLISHED |-> FactorTable(120, 180, 180, 150, 100, 150, 70, 50),
     BALANCED_TRANSFORMER |-> FactorTable(125, 125, 125, 125, 125, 125, 125, 125)]

\* calculate_dynamic_weights with the context adjustment on D1 alone
DynamicWeightsContextOnD1(archetype_name, ctx) ==
    LET base_weights == IF archetype_name \in DOMAIN ARCHETYPE_WEIGHTS
                        THEN ARCHETYPE_WEIGHTS[archetype_name]
                        ELSE ARCHETYPE_WEIGHTS["BALANCED_TRANSFORMER"]
        adjusted_weights == [d \in Dims |-> IF d = "D1"
                                            THEN base_weights[d] * (4500 + ctx)
                                            ELSE base_weights[d] * 5000]
        total_weight == SumOver(adjusted_weights, DimOrder, 1)
    IN  [d \in Dims |-> RoundHalfEven(1000 * adjusted_weights[d], total_weight)]

\* thousandths.  context_factor = 1.0 + (context_score - 0.5) * 0.2 is
\* (4500 + context_score) / 5000 with the score in thousandths; each weight
\* is multiplied by it, divided by the total and rounded to 3 decimals
backend_calculate_dynamic_weights(archetype_name, ctx) ==
    LET base_weights == IF archetype_name \in DOMAIN ARCHETYPE_WEIGHTS
                        THEN ARCHETYPE_WEIGHTS[archetype_name]
                        ELSE ARCHETYPE_WEIGHTS["BALANCED_TRANSFORMER"]
        adjusted_weights == [d \in Dims |-> base_weights[d] * (4500 + ctx)]
        total_weight == SumOver(adjusted_weights, DimOrder, 1)
    IN  [d \in Dims |-> RoundHalfEven(1000 * base_weights[d] * (4500 + ctx),
                                      total_weight)]

\* gap in tenths (round(gap, 1)), gap_percentage in hundredths of a percent
\* (round(gap / 4.0 * 100.0, 2))
backend_calculate_subdimension_gap(ist_value, soll_value) ==
    LET gap == Abs(soll_value - ist_value)
    IN  <<RoundHalfEven(gap, 1), RoundHalfEven(1000 * gap, 4)>>

----------------------------------------------------------------------------
(* schemas/assessment.py and crud_assessment.py: completing an assessment *)

EXPECTED_SUBDIMENSIONS ==
    <<"D1.1", "D1.2", "D2.1", "D2.2", "D3.1", "D3.2", "D4.1", "D4.2",
      "D5.1", "D5.2", "D6.1", "D6.2", "D7.1", "D7.2", "D8.1", "D8.2">>

SeqToSet(q) == {q[i] : i \in 1..Len(q)}

ValueError(detail) == [raised |-> "ValueError", detail |-> detail]

\* the validator checking the number of scores only
ValidateLengthOnly(v) ==
    IF Len(v) # 16
    THEN ValueError("Must provide exactly 16 subdimension scores")
    ELSE [subdimension_scores |-> v]

\* AssessmentCompletion.validate_all_subdimensions: the list, or a ValueError
validate_all_subdimensions(v) ==
    IF Len(v) # 16
    THEN ValueError("Must provide exactly 16 subdimension scores")
    ELSE LET provided_subdimensions == [i \in 1..Len(v) |-> v[i].subdimension_id]
             missing == SeqToSet(EXPECTED_SUBDIMENSIONS) \ SeqToSet(provided_subdimensions)
         IN  IF missing # {}
             THEN ValueError("Missing subdimension scores")
             ELSE [subdimension_scores |-> v]

\* subdimension_id.startswith(dim_id + '.'), on the ids of the model
StartsWith(subdimension_id, dim_id) ==
    \E k \in 1..8 :
       /\ DimOrder[k] = dim_id
       /\ \/ subdimension_id \in {EXPECTED_SUBDIMENSIONS[2 * k - 1],
                                  EXPECTED_SUBDIMENSIONS[2 * k]}
          \/ (k = 1 /\ subdimension_id = "D1.3")

\* round(x, 1) of x = total / 2 given in twentieths: the nearest tenth, and
\* either neighbour when x lies halfway, where the float decides
RoundHalfChoices(total) ==
    IF total % 2 = 0 THEN {total \div 2}
    ELSE {(total - 1) \div 2, (total + 1) \div 2}

\* the SubdimensionScore rows of the payload, with gap and priority
RECURSIVE CreateSubdimensionScores(_, _)
CreateSubdimensionScores(data, i) ==
    IF i > Len(data) THEN <<>>
    ELSE LET g == backend_calculate_subdimension_gap(data[i].ist_value,
                                                     data[i].soll_value)
         IN  << [subdimension_id |-> data[i].subdimension_id,
                 ist_value |-> data[i].ist_value,
                 soll_value |-> data[i].soll_value,
                 gap |-> g[1],
                 gap_percentage |-> g[2],
                 priority_level |->
                     backend_calculate_priority_level(data[i].ist_value, g[1])] >>
             \o CreateSubdimensionScores(data, i + 1)

RECURSIVE SumField(_, _, _)
SumField(rows, field, i) ==
    IF i > Len(rows) THEN 0 ELSE rows[i][field] + SumField(rows, field, i + 1)

\* the DimensionScore rows one dimension can get: none unless it has two
\* subdimension scores
DimensionScoreChoices(subdimension_scores, dim_id, dw) ==
    LET dim_subdimensions ==
            SelectSeq(subdimension_scores,
                      LAMBDA score : StartsWith(score.subdimension_id, dim_id))
        sum_ist == SumField(dim_subdimensions, "ist_value", 1)
        sum_soll == SumField(dim_subdimensions, "soll_value", 1)
    IN  IF Len(dim_subdimensions) = 2
        THEN { << [dimension_id |-> dim_id,
                   ist_value |-> i,
                   soll_value |-> so,
                   gap |-> g,
                   dynamic_weight |-> IF dim_id \in DOMAIN dw THEN dw[dim_id]
                                      ELSE DEFAULT_DYNAMIC_WEIGHT] >> :
                 i \in RoundHalfChoices(sum_ist),
                 so \in RoundHalfChoices(sum_soll),
                 g \in RoundHalfChoices(Abs(sum_soll - sum_ist)) }
        ELSE {<<>>}

\* the lists of DimensionScore rows the loop over D1..D8 can build
RECURSIVE AggregateDimensions(_, _, _)
AggregateDimensions(subdimension_scores, dw, k) ==
    IF k > Len(DimOrder) THEN {<<>>}
    ELSE {first \o rest :
             first \in DimensionScoreChoices(subdimension_scores, DimOrder[k], dw),
             rest \in AggregateDimensions(subdimension_scores, dw, k + 1)}

\* what complete_assessment commits for the dimension scores it built
CompletedAssessment(completion_data, organisation_archetype, dim_scores) ==
    LET all_metrics == backend_calculate_all_metrics(dim_scores,
                                                     completion_data.context_factors)
    IN  [assessment |->
            [overall_rgi |-> all_metrics.rgi,
             overall_eqi |-> all_metrics.eqi,
             overall_si |-> all_metrics.si,
             overall_sbs |-> all_metrics.sbs,
             context_score |-> all_metrics.context_score,
             status |-> "COMPLETED",
             completion_percentage |-> 100],
         context_factors |-> completion_data.context_factors,
         subdimension_scores |->
             CreateSubdimensionScores(completion_data.subdimension_scores, 1),
         dimension_scores |-> dim_scores]

\* the results complete_assessment can have on a stored assessment
complete_assessment(completion_data, organisation_archetype) ==
    LET ctx == backend_calculate_context_score(completion_data.context_factors)
        dw == backend_calculate_dynamic_weights(organisation_archetype, ctx)
        subdimension_scores ==
            CreateSubdimensionScores(completion_data.subdimension_scores, 1)
    IN  {CompletedAssessment(completion_data, organisation_archetype, ds) :
            ds \in AggregateDimensions(subdimension_scores, dw, 1)}

----------------------------------------------------------------------------
(* Single calls of the engines' functions: SpecUnits *)

\* test_calculations.py, test_calculate_priority_level: (ist, gap, expected)
PRIORITY_TEST_ROWS ==
    { <<19, 16, "CRITICAL">>, <<24, 11, "HIGH">>, <<26, 16, "HIGH">>,
      <<30, 9, "HIGH">>, <<35, 5, "MEDIUM">>, <<38, 2, "LOW">> }

FACTOR_VALUES == 0..3

\* the two sample_context_factors fixtures
SampleFactors(n) ==
    LET SAMPLE_VALUES == <<2, 1, 3, 2, 1, 2, 3, 2, 1, 2>>
    IN  [i \in 1..n |-> ContextFactor(FACTOR_NAMES[i], SAMPLE_VALUES[i])]

MaxFactors == 2

ShortLists ==
    LET NameInputs == {"Organisationsgröße", "Ressourcenverfügbarkeit",
                       "Digitalisierungsgrad"}
        FactorInputs == {ContextFactor(n, v) : n \in NameInputs, v \in FACTOR_VALUES}
    IN  UNION {[1..n -> FactorInputs] : n \in 0..MaxFactors}

\* n factors under the names F1..Fn: the first at f, Ressourcenverfügbarkeit
\* at r, every other one at v
FullList(n, f, r, v) ==
    [i \in 1..n |->
        ContextFactor(FACTOR_NAMES[i],
            IF FACTOR_NAMES[i] = "Ressourcenverfügbarkeit" THEN r
            ELSE IF i = 1 THEN f ELSE v)]

FactorLists ==
    LET FullLists(n) == {FullList(n, f, r, v) : f \in FACTOR_VALUES,
                                                r \in FACTOR_VALUES,
                                                v \in FACTOR_VALUES}
    IN  ShortLists \cup FullLists(8) \cup FullLists(10)
            \cup {SampleFactors(8), SampleFactors(10)}

\* weight vectors (thousandths) the scores of a single call carry
WeightVectors ==
    { <<125, 125, 125, 125, 125, 125, 125, 125>>,
      <<200, 180, 100, 120, 120, 80, 100, 100>> }

\* eight scores D1..D8 with the pairs p[i] and the weights wv[i]
ScoreList(p, wv) ==
    [i \in 1..8 |-> DimensionScore(DimOrder[i], p[i][1], p[i][2], wv[i])]

\* D1..D3 over ScorePairs, the other dimensions at the first pair
VariedScoreLists ==
    LET UnitVariedDims == 1..3
    IN  {ScoreList([i \in 1..8 |-> IF i \in UnitVariedDims THEN q[i] ELSE PairList[1]], wv) :
            q \in [UnitVariedDims -> ScorePairs], wv \in WeightVectors}

\* all eight dimensions at the same pair
UniformScoreLists ==
    {ScoreList([i \in 1..8 |-> PairList[k]], wv) :
        k \in 1..Len(PairList), wv \in WeightVectors}

\* all eight dimensions at the same ist value, the soll values differing
EqualIstScoreLists ==
    LET SOLL_PATTERN == <<10, 40, 25, 30, 36, 19, 40, 10>>
    IN  {ScoreList([i \in 1..8 |-> <<v, SOLL_PATTERN[i]>>], wv) :
            v \in {10, 25, 40}, wv \in WeightVectors}

EightScoreLists == VariedScoreLists \cup UniformScoreLists \cup EqualIstScoreLists

\* lists of fewer than eight scores (the empty list included) and of nine
ScoreLists ==
    EightScoreLists
        \cup {SubSeq(l, 1, n) : l \in UniformScoreLists \cup EqualIstScoreLists, n \in 0..7}
        \cup {Append(l, l[1]) : l \in UniformScoreLists}

SubdimensionScoreCreate(subdimension_id, ist_value, soll_value) ==
    [subdimension_id |-> subdimension_id, ist_value |-> ist_value,
     soll_value |-> soll_value]

\* the sixteen expected scores, each at ist 2.5 and soll 3.0
BasePayload ==
    [i \in 1..16 |-> SubdimensionScoreCreate(EXPECTED_SUBDIMENSIONS[i], 25, 30)]

NumSubValues == 3

\* the two subdimensions of D1 over the first NumSubValues values
ValuePayloads ==
    LET SUB_VALUES == <<10, 11, 12, 40, 25>>
        SubValues == {SUB_VALUES[i] : i \in 1..Min2(NumSubValues, Len(SUB_VALUES))}
    IN  {[BasePayload EXCEPT ![1].ist_value = i1, ![1].soll_value = s1,
                             ![2].ist_value = i2, ![2].soll_value = s2] :
            i1 \in SubValues, s1 \in SubValues, i2 \in SubValues, s2 \in SubValues}

\* the base payload with one id replaced (by an expected id or by one no
\* dimension expects), one score dropped or one score added, and in
\* reverse order
IdPayloads ==
    LET SubdimensionIds == SeqToSet(EXPECTED_SUBDIMENSIONS) \cup {"D1.3", "D9.1"}
    IN  {[BasePayload EXCEPT ![i].subdimension_id = x] : i \in 1..16, x \in SubdimensionIds}
        \cup {[j \in 1..15 |-> IF j < i THEN BasePayload[j] ELSE BasePayload[j + 1]] :
                 i \in 1..16}
        \cup {Append(BasePayload, SubdimensionScoreCreate(x, 25, 30)) : x \in SubdimensionIds}
        \cup {[j \in 1..16 |-> BasePayload[17 - j]], <<>>}

CompletionArgs ==
    {[fn |-> "complete_assessment", subdimension_scores |-> v, context_factors |-> l,
      organisation_archetype |-> a, assessment_found |-> f] :
        v \in ValuePayloads \cup IdPayloads,
        l \in {<<>>, SampleFactors(8)},
        a \in {"CHAOTIC_DOER", "NOT_A_REAL_TYPE"},
        f \in BOOLEAN}

MetricFunctions ==
    {"calculate_eqi", "calculate_rgi", "calculate_si",
     "backend.calculate_eqi", "backend.calculate_rgi", "backend.calculate_si"}

\* raise HTTPException(status_code=..., detail=...)
HTTPException(status_code, detail) ==
    [raised |-> "HTTPException", status_code |-> status_code, detail |-> detail]

\* the assessment a completion request can find stored, with its rows: a
\* draft with the column defaults and no scores, or one that an earlier
\* request completed
StoredAssessments ==
    {[assessment |->
         [overall_rgi |-> None, overall_eqi |-> None, overall_si |-> None,
          overall_sbs |-> None, context_score |-> None,
          status |-> "DRAFT", completion_percentage |-> 0],
      context_factors |-> <<>>,
      subdimension_scores |-> <<>>,
      dimension_scores |-> <<>>]}
    \cup complete_assessment([subdimension_scores |-> BasePayload,
                              context_factors |-> <<>>], "CHAOTIC_DOER")

UnitArgs ==
    {[fn |-> f, ist_value |-> i, gap |-> g] :
        f \in {"calculate_priority_level", "backend.calculate_priority_level"},
        i \in 10..40, g \in 0..30}
    \cup
    {[fn |-> f, context_factors |-> l] :
        f \in {"calculate_context_score", "backend.calculate_context_score"},
        l \in FactorLists}
    \cup
    {[fn |-> f, dimension_scores |-> l] : f \in MetricFunctions, l \in ScoreLists}
    \cup CompletionArgs
    \cup
    {[fn |-> "backend.calculate_dynamic_weights", archetype |-> a, context_score |-> c] :
        a \in DOMAIN ARCHETYPE_WEIGHTS \cup {"NOT_A_REAL_TYPE"}, c \in 0..1000}
    \cup
    {[fn |-> f, ist_value |-> i, soll_value |-> so] :
        f \in {"calculate_subdimension_gap", "backend.calculate_subdimension_gap"},
        i \in 10..40, so \in 10..40}

InitUnits ==
    /\ args \in UnitArgs
    /\ ret = None
    /\ pc = "call"
    /\ dimension_scores = None
    /\ context_factors = None
    /\ archetype = None
    /\ is_kmu = None
    /\ call = None
    /\ context_score = None
    /\ archetyp_enum = None
    /\ weights = None
    /\ dynamic_weights = None
    /\ metrics = None
    /\ result = None
    /\ first_result = None
    /\ heap = None
    /\ invocations = None
    /\ db \in IF args.fn = "complete_assessment" /\ args.assessment_found
              THEN StoredAssessments
              ELSE {None}

Return(fn, value) ==
    /\ pc = "call"
    /\ args.fn = fn
    /\ ret' = value
    /\ pc' = "returned"
    /\ UNCHANGED <<dimension_scores, context_factors, archetype, is_kmu, call,
                   context_score, archetyp_enum, weights, dynamic_weights,
                   metrics, result, first_result, args>>
    /\ UNCHANGED <<concurrent_vars, db>>

Call_calculate_priority_level ==
    Return("calculate_priority_level",
           calculate_priority_level(args.ist_value, args.gap))

Call_backend_calculate_priority_level ==
    Return("backend.calculate_priority_level",
           backend_calculate_priority_level(args.ist_value, args.gap))

Call_calculate_context_score ==
    Return("calculate_context_score",
           calculate_context_score(args.context_factors))

Call_backend_calculate_context_score ==
    Return("backend.calculate_context_score",
           backend_calculate_context_score(args.context_factors))

Call_calculate_eqi ==
    Return("calculate_eqi", calculate_eqi(args.dimension_scores))

Call_calculate_rgi ==
    Return("calculate_rgi", calculate_rgi(args.dimension_scores))

Call_calculate_si ==
    Return("calculate_si", calculate_si(args.dimension_scores))

Call_backend_calculate_eqi ==
    Return("backend.calculate_eqi", backend_calculate_eqi(args.dimension_scores))

Call_backend_calculate_rgi ==
    Return("backend.calculate_rgi", backend_calculate_rgi(args.dimension_scores))

Call_backend_calculate_si ==
    Return("backend.calculate_si", backend_calculate_si(args.dimension_scores))

Call_calculate_subdimension_gap ==
    Return("calculate_subdimension_gap",
           calculate_subdimension_gap(args.ist_value, args.soll_value))

Call_backend_calculate_subdimension_gap ==
    Return("backend.calculate_subdimension_gap",
           backend_calculate_subdimension_gap(args.ist_value, args.soll_value))

Call_backend_calculate_dynamic_weights ==
    Return("backend.calculate_dynamic_weights",
           backend_calculate_dynamic_weights(args.archetype, args.context_score))

\* the request body is parsed into an AssessmentCompletion: its validator
\* accepts the subdimension scores or raises
Validate_AssessmentCompletion ==
    /\ pc = "call"
    /\ args.fn = "complete_assessment"
    /\ LET v == validate_all_subdimensions(args.subdimension_scores)
       IN  IF "raised" \in DOMAIN v
           THEN pc' = "rejected" /\ ret' = v
           ELSE pc' = "validated" /\ ret' = ret
    /\ UNCHANGED <<dimension_scores, context_factors, archetype, is_kmu, call,
                   context_score, archetyp_enum, weights, dynamic_weights,
                   metrics, result, first_result, args>>
    /\ UNCHANGED <<concurrent_vars, db>>

\* the route without its check of assessment.status
Route_WithoutStatusCheck ==
    /\ pc = "validated"
    /\ args.fn = "complete_assessment"
    /\ \E route \in {"root", "backend"} :
          IF ~args.assessment_found
          THEN ret' = HTTPException(404, "Assessment not found") /\ pc' = "raised"
          ELSE IF route = "root"
          THEN /\ \E status_code \in {400, 500} :
                     ret' = HTTPException(status_code, "Calculation error")
               /\ pc' = "raised"
          ELSE ret' = ret /\ pc' = "checked"
    /\ UNCHANGED <<dimension_scores, context_factors, archetype, is_kmu, call,
                   context_score, archetyp_enum, weights, dynamic_weights,
                   metrics, result, first_result, args>>
    /\ UNCHANGED <<concurrent_vars, db>>

\* the route handler complete_assessment, in assessments.py and in
\* backend/app/api/routes/assessments.py, up to its call of the CRUD object:
\* 404 for an assessment that is not stored, 400 for a completed one. The
\* handler of assessments.py then calculates and calls
\* crud_assessment.complete_assessment_with_metrics, which CRUDAssessment
\* does not have: a ValueError of the calculation ends in 400, everything
\* else, the AttributeError at the latest, in 500
Route_complete_assessment ==
    /\ pc = "validated"
    /\ args.fn = "complete_assessment"
    /\ \E route \in {"root", "backend"} :
          IF ~args.assessment_found
          THEN ret' = HTTPException(404, "Assessment not found") /\ pc' = "raised"
          ELSE IF db.assessment.status = "COMPLETED"
          THEN /\ ret' = HTTPException(400, "Assessment is already completed")
               /\ pc' = "raised"
          ELSE IF route = "root"
          THEN /\ \E status_code \in {400, 500} :
                     ret' = HTTPException(status_code, "Calculation error")
               /\ pc' = "raised"
          ELSE ret' = ret /\ pc' = "checked"
    /\ UNCHANGED <<dimension_scores, context_factors, archetype, is_kmu, call,
                   context_score, archetyp_enum, weights, dynamic_weights,
                   metrics, result, first_result, args>>
    /\ UNCHANGED <<concurrent_vars, db>>

\* CRUDAssessment.complete_assessment on the validated data: the rows are
\* added to the stored ones and the assessment is updated in one commit
Call_complete_assessment ==
    /\ pc = "checked"
    /\ args.fn = "complete_assessment"
    /\ IF ~args.assessment_found
       THEN ret' = ValueError("Assessment not found") /\ pc' = "raised" /\ db' = db
       ELSE /\ ret' \in complete_assessment(
                          [subdimension_scores |-> args.subdimension_scores,
                           context_factors |-> args.context_factors],
                          args.organisation_archetype)
            /\ db' = [assessment |-> ret'.assessment,
                      context_factors |->
                          db.context_factors \o ret'.context_factors,
                      subdimension_scores |->
                          db.subdimension_scores \o ret'.subdimension_scores,
                      dimension_scores |->
                          db.dimension_scores \o ret'.dimension_scores]
            /\ pc' = "returned"
    /\ UNCHANGED <<dimension_scores, context_factors, archetype, is_kmu, call,
                   context_score, archetyp_enum, weights, dynamic_weights,
                   metrics, result, first_result, args>>
    /\ UNCHANGED concurrent_vars

\* the client sends a further completion request for the same assessment
Request_complete_assessment ==
    /\ pc \in {"rejected", "raised", "returned"}
    /\ args.fn = "complete_assessment"
    /\ LET LowPayload == [BasePayload EXCEPT ![1].ist_value = 10, ![1].soll_value = 12,
                                             ![2].ist_value = 10, ![2].soll_value = 12]
       IN  args' \in {a \in CompletionArgs :
                        /\ a.assessment_found = args.assessment_found
                        /\ a.organisation_archetype = "CHAOTIC_DOER"
                        /\ a.subdimension_scores \in {BasePayload, LowPayload, <<>>}}
    /\ pc' = "call"
    /\ ret' = None
    /\ UNCHANGED <<dimension_scores, context_factors, archetype, is_kmu, call,
                   context_score, archetyp_enum, weights, dynamic_weights,
                   metrics, result, first_result>>
    /\ UNCHANGED <<concurrent_vars, db>>

NextUnits ==
    \/ Call_calculate_priority_level
    \/ Call_backend_calculate_priority_level
    \/ Call_calculate_context_score
    \/ Call_backend_calculate_context_score
    \/ Call_calculate_eqi
    \/ Call_calculate_rgi
    \/ Call_calculate_si
    \/ Call_backend_calculate_eqi
    \/ Call_backend_calculate_rgi
    \/ Call_backend_calculate_si
    \/ Call_calculate_subdimension_gap
    \/ Call_backend_calculate_subdimension_gap
    \/ Call_backend_calculate_dynamic_weights
    \/ Validate_AssessmentCompletion
    \/ Route_complete_assessment
    \/ Call_complete_assessment
    \/ Request_complete_assessment

SpecUnits == InitUnits /\ [][NextUnits]_vars

Returned_from(fn) == pc = "returned" /\ args.fn = fn

----------------------------------------------------------------------------
(* Properties of the single functions, checked under SpecUnits *)

\* C6: the backend calculate_priority_level is total and returns the first
\* match of: ist < 2.0 and gap > 1.5 CRITICAL; ist < 2.5 and gap > 1.0 HIGH;
\* gap > 1.5 HIGH; gap > 0.8 MEDIUM; otherwise LOW
C6_PriorityCascade ==
    Returned_from("backend.calculate_priority_level") =>
        LET ist == args.ist_value
            gap == args.gap
            critical == ist < 20 /\ gap > 15
            high == ~critical /\ ((ist < 25 /\ gap > 10) \/ gap > 15)
            medium == ~critical /\ ~high /\ gap > 8
        IN  /\ ret \in {"CRITICAL", "HIGH", "MEDIUM", "LOW"}
            /\ (ret = "CRITICAL") = critical
            /\ (ret = "HIGH") = high
            /\ (ret = "MEDIUM") = medium
            /\ (ret = "LOW") = (~critical /\ ~high /\ ~medium)
            /\ (ist = 19 /\ gap = 16) => ret = "CRITICAL"
            /\ (ist = 30 /\ gap = 9) => ret = "MEDIUM"
            /\ (ist = 38 /\ gap = 2) => ret = "LOW"

\* C6 witness: the call with ist = 3.0 and gap = 0.9 has returned MEDIUM
C6_Witness ==
    /\ Returned_from("backend.calculate_priority_level")
    /\ args.ist_value = 30
    /\ args.gap = 9
    /\ ret = "MEDIUM"

\* C7 as claimed: the root calculate_priority_level returns, for every row of
\* its test (ist, gap, expected), the expected priority
C7_Original ==
    Returned_from("calculate_priority_level") =>
        \A row \in PRIORITY_TEST_ROWS :
            (args.ist_value = row[1] /\ args.gap = row[2]) => ret = row[3]

LastIndexOf(factors, name) ==
    CHOOSE i \in 1..Len(factors) :
        /\ factors[i].factor_name = name
        /\ \A j \in (i + 1)..Len(factors) : factors[j].factor_name # name

\* the value supplied for a name (of the last factor of that name), 1 when
\* no factor has the name
Supplied(factors, name) ==
    IF \E i \in 1..Len(factors) : factors[i].factor_name = name
    THEN factors[LastIndexOf(factors, name)].factor_value
    ELSE 1

Effective(factors, name) ==
    IF name = "Ressourcenverfügbarkeit"
    THEN 3 - Supplied(factors, name) ELSE Supplied(factors, name)

EffectiveSum(factors) ==
    Effective(factors, "Organisationsgröße") + Effective(factors, "Branchendynamik")
    + Effective(factors, "Regulatorischer Druck")
    + Effective(factors, "Technologische Komplexität")
    + Effective(factors, "Change-Historie") + Effective(factors, "Marktdynamik")
    + Effective(factors, "Wettbewerbsdruck")
    + Effective(factors, "Ressourcenverfügbarkeit")

\* C8: the 8-factor calculate_context_score returns 0.5 for no factors, and
\* otherwise the thousandth nearest to (sum of the eight effective values) / 24,
\* the value of a name being the supplied one (1 when absent) and that of
\* Ressourcenverfügbarkeit 3 minus it
C8_BackendContextScore ==
    Returned_from("backend.calculate_context_score") =>
        IF Len(args.context_factors) = 0 THEN ret = 500
        ELSE 2 * Abs(24 * ret - 1000 * EffectiveSum(args.context_factors)) < 24

\* C8 witness: all eight factors at 1 have returned 9/24 = 0.375
C8_Witness ==
    /\ Returned_from("backend.calculate_context_score")
    /\ args.context_factors = FullList(8, 1, 1, 1)
    /\ ret = 375

ResourceIndex(factors) ==
    CHOOSE i \in 1..Len(factors) : factors[i].factor_name = "Ressourcenverfügbarkeit"

RECURSIVE InvertedWeightedFactors(_, _)
InvertedWeightedFactors(factors, i) ==
    IF i > Len(factors) THEN 0
    ELSE (IF factors[i].factor_name = "Ressourcenverfügbarkeit"
          THEN 3 - factors[i].factor_value ELSE factors[i].factor_value)
             * CONTEXT_WEIGHTS[i]
         + InvertedWeightedFactors(factors, i + 1)

\* C9 as claimed: in the 10-factor calculate_context_score
\* Ressourcenverfügbarkeit enters as 3 - raw value, so no higher raw value of
\* it, the other nine factors fixed, gives a higher score
C9_Original ==
    (Returned_from("calculate_context_score") /\ Len(args.context_factors) = 10) =>
        /\ ret = Clamp01(InvertedWeightedFactors(args.context_factors, 1), 300)
        /\ \A v \in FACTOR_VALUES :
              LET i == ResourceIndex(args.context_factors)
              IN  v > args.context_factors[i].factor_value =>
                      calculate_context_score(
                          [args.context_factors EXCEPT ![i].factor_value = v]) <= ret

\* C11 as claimed: calculate_eqi, calculate_rgi and calculate_si, of either
\* engine, return 0.0 whenever the list does not hold exactly 8 records
C11_Original ==
    (pc = "returned" /\ args.fn \in MetricFunctions
        /\ Len(args.dimension_scores) # 8) => ret = 0

CountOf(v, id) == Cardinality({i \in 1..Len(v) : v[i].subdimension_id = id})

\* C13: a payload passes the AssessmentCompletion validation exactly if it
\* holds 16 subdimension scores and none of the ids D1.1..D8.2 is missing;
\* an accepted payload holds each expected id exactly once, and a rejected
\* one ends in a ValueError with nothing calculated
C13_CompletionValidation ==
    (args.fn = "complete_assessment" /\ pc # "call") =>
        LET v == args.subdimension_scores
            complete == /\ Len(v) = 16
                        /\ \A id \in SeqToSet(EXPECTED_SUBDIMENSIONS) : CountOf(v, id) >= 1
            accepted == pc \in {"validated", "checked", "returned", "raised"}
        IN  /\ accepted = complete
            /\ (pc = "rejected") = ~complete
            /\ accepted =>
                  /\ \A id \in SeqToSet(EXPECTED_SUBDIMENSIONS) : CountOf(v, id) = 1
                  /\ \A dim \in Dims :
                        Cardinality({i \in 1..Len(v) :
                                        StartsWith(v[i].subdimension_id, dim)}) = 2
            /\ pc = "rejected" =>
                  /\ ret.raised = "ValueError"
                  /\ DOMAIN ret = {"raised", "detail"}

\* C13 witness: a payload of 16 scores in which one expected id is given twice
\* and another is missing has been rejected
C13_Witness ==
    /\ args.fn = "complete_assessment"
    /\ pc = "rejected"
    /\ Len(args.subdimension_scores) = 16
    /\ CountOf(args.subdimension_scores, "D1.1") = 2
    /\ CountOf(args.subdimension_scores, "D8.2") = 0

\* C19 as claimed: every DimensionScore complete_assessment stores has ist
\* and soll at the mean of its two subdimension values rounded to 1 decimal
\* and a gap equal to |ist_value - soll_value| of the stored values
C19_Original ==
    (args.fn = "complete_assessment" /\ pc = "returned") =>
        \A k \in 1..Len(ret.dimension_scores) :
            LET score == ret.dimension_scores[k]
                subs == SelectSeq(args.subdimension_scores,
                            LAMBDA x : StartsWith(x.subdimension_id, score.dimension_id))
            IN  /\ Len(subs) = 2
                /\ Abs(2 * score.ist_value - (subs[1].ist_value + subs[2].ist_value)) <= 1
                /\ Abs(2 * score.soll_value - (subs[1].soll_value + subs[2].soll_value)) <= 1
                /\ score.gap = Abs(score.ist_value - score.soll_value)

\* C14: for eight dimension scores the backend calculate_eqi returns
\* 1 - min(1, (sum of |ist - soll|) / 24) rounded to 3 decimals: 1.0 exactly
\* when every gap is 0, 0.0 when every gap is 3.0, 0.833 for eight times
\* ist 2.5, soll 3.0
C14_BackendEqi ==
    (Returned_from("backend.calculate_eqi") /\ Len(args.dimension_scores) = 8) =>
        LET s == args.dimension_scores
            total == Abs(s[1].ist_value - s[1].soll_value)
                     + Abs(s[2].ist_value - s[2].soll_value)
                     + Abs(s[3].ist_value - s[3].soll_value)
                     + Abs(s[4].ist_value - s[4].soll_value)
                     + Abs(s[5].ist_value - s[5].soll_value)
                     + Abs(s[6].ist_value - s[6].soll_value)
                     + Abs(s[7].ist_value - s[7].soll_value)
                     + Abs(s[8].ist_value - s[8].soll_value)
            capped == IF total > 240 THEN 240 ELSE total
        IN  /\ 2 * Abs(240 * ret - 1000 * (240 - capped)) <= 240
            /\ (ret = 1000) = (\A k \in 1..8 : s[k].ist_value = s[k].soll_value)
            /\ (\A k \in 1..8 : Abs(s[k].ist_value - s[k].soll_value) = 30) => ret = 0
            /\ (\A k \in 1..8 : s[k].ist_value = 25 /\ s[k].soll_value = 30) => ret = 833

\* C14 witness: eight dimensions at ist 2.5, soll 3.0 have returned 0.833
C14_Witness ==
    /\ Returned_from("backend.calculate_eqi")
    /\ Len(args.dimension_scores) = 8
    /\ \A k \in 1..8 : /\ args.dimension_scores[k].ist_value = 25
                       /\ args.dimension_scores[k].soll_value = 30
    /\ ret = 833

PairTension(s, a, b) ==
    Abs(s[a].ist_value - s[b].ist_value) * (s[a].dynamic_weight + s[b].dynamic_weight)

\* C16: calculate_si returns the sum over the 12 tension pairs (a, b) of
\* |ist_a - ist_b| * (w_a + w_b) / 2, divided by 6.0 and clamped to [0, 1]; it
\* is 0 when all eight ist values are equal, whatever soll values and weights
C16_TensionIndex ==
    (Returned_from("calculate_si") /\ args.dimension_scores \in EightScoreLists) =>
        LET s == args.dimension_scores
            total == PairTension(s, 1, 2) + PairTension(s, 1, 3) + PairTension(s, 1, 4)
                     + PairTension(s, 1, 5) + PairTension(s, 2, 3) + PairTension(s, 2, 6)
                     + PairTension(s, 3, 4) + PairTension(s, 3, 6) + PairTension(s, 4, 5)
                     + PairTension(s, 5, 6) + PairTension(s, 6, 7) + PairTension(s, 7, 8)
        IN  /\ ret = (IF total > ONE THEN ONE ELSE total)
            /\ ret >= 0
            /\ (\A k \in 1..8 : s[k].ist_value = s[1].ist_value) => ret = 0

\* C16 witness: eight scores of equal ist, differing soll values and differing
\* weights have returned 0
C16_Witness ==
    /\ Returned_from("calculate_si")
    /\ args.dimension_scores \in EqualIstScoreLists
    /\ args.dimension_scores[1].dynamic_weight # args.dimension_scores[3].dynamic_weight
    /\ args.dimension_scores[1].soll_value # args.dimension_scores[2].soll_value
    /\ ret = 0

\* C18: calculate_subdimension_gap, of either engine, returns the gap
\* |ist - soll|, the same for (soll, ist), and gap_percent = gap / 4.0 * 100
\* (ist 4.0, soll 1.0: gap 3.0 and 75.0 percent)
C18_GapSymmetry ==
    (pc = "returned" /\ args.fn \in {"calculate_subdimension_gap",
                                     "backend.calculate_subdimension_gap"}) =>
        LET swapped == IF args.fn = "calculate_subdimension_gap"
                       THEN calculate_subdimension_gap(args.soll_value, args.ist_value)
                       ELSE backend_calculate_subdimension_gap(args.soll_value,
                                                               args.ist_value)
        IN  /\ ret[1] = swapped[1]
            /\ ret[1] = (IF args.ist_value >= args.soll_value
                         THEN args.ist_value - args.soll_value
                         ELSE args.soll_value - args.ist_value)
            /\ 4 * ret[2] = ret[1] * 1000
            /\ (args.ist_value = 40 /\ args.soll_value = 10) => ret = <<30, 7500>>

\* C18 witness: ist 1.0, soll 4.0 has returned gap 3.0 and 75.0 percent from
\* the root function
C18_Witness ==
    /\ Returned_from("calculate_subdimension_gap")
    /\ args.ist_value = 10
    /\ args.soll_value = 40
    /\ ret = <<30, 7500>>


(***************************************************************************)
(* Concurrent invocations of calculate_dynamic_weights, root and backend   *)
(***************************************************************************)

\* the number of invocations running at the same time
NumInvocations == 2

Threads ==
    LET ThreadNames == <<"t1", "t2", "t3">>
    IN  {ThreadNames[i] : i \in 1..Min2(NumInvocations, Len(ThreadNames))}

\* a reference that points at no object
NULL == <<"null", "null">>

\* the class attribute ARCHETYPE_WEIGHTS[name] of the backend engine: one
\* dict object per archetype, created when the class body runs
ArchetypeWeightsRef(name) == <<"ARCHETYPE_WEIGHTS", name>>

\* a dict created by the invocation t itself (a dict literal or a dict
\* comprehension evaluated inside the call)
LocalRef(kind, t) == <<kind, t>>

\* the class attributes: the ARCHETYPE_WEIGHTS entries and the lists holding
\* the tension pairs of the two engines
SharedRefs ==
    {ArchetypeWeightsRef(n) : n \in DOMAIN ARCHETYPE_WEIGHTS}
        \cup {<<"SPANNUNGSPAARE", "root">>, <<"TENSION_PAIRS", "backend">>}

\* the objects as they are once the two modules are imported; the dicts of
\* the invocations do not exist yet
InitialHeap ==
    LET LocalRefs == {LocalRef(k, t) : k \in {"weights", "faktoren", "adjusted_weights"},
                                       t \in Threads}
    IN  [a \in SharedRefs \cup LocalRefs |->
            IF a = <<"SPANNUNGSPAARE", "root">> THEN SPANNUNGSPAARE
            ELSE IF a = <<"TENSION_PAIRS", "backend">> THEN TENSION_PAIRS
            ELSE IF a \in SharedRefs THEN ARCHETYPE_WEIGHTS[a[2]]
            ELSE <<>>]

InvocationInput(engine, scores, ctx, archetype_name, kmu) ==
    [engine |-> engine, dimension_scores |-> scores, context_score |-> ctx,
     archetype |-> archetype_name, is_kmu |-> kmu]

\* root calls (context score in units of 1/300: 0.5 and 0.9) on eight
\* dimensions all at ist 2.5 / soll 3.0 or all at ist 1.0 / soll 4.0;
\* backend calls (context score in thousandths) whose dimension_scores
\* keeps its default, an unknown archetype falling back to
\* BALANCED_TRANSFORMER
InvocationInputs ==
    LET ConcurrentScoreLists ==
            {ScoreList([i \in 1..8 |-> PairList[k]],
                       <<125, 125, 125, 125, 125, 125, 125, 125>>) : k \in 1..2}
        RootInvocationInputs ==
            {InvocationInput("root", sc, 150, "CHAOTIC_DOER", FALSE) :
                sc \in ConcurrentScoreLists}
            \cup {InvocationInput("root", sc, 270, "CAUTIOUS_CORPORATE", TRUE) :
                     sc \in {l \in ConcurrentScoreLists : l[1].gap = 5}}
        BackendInvocationInputs ==
            {InvocationInput("backend", <<>>, c, "CHAOTIC_DOER", FALSE) : c \in {500, 900}}
            \cup {InvocationInput("backend", <<>>, 0, "NOT_A_REAL_TYPE", FALSE)}
    IN  RootInvocationInputs \cup BackendInvocationInputs

NewInvocation(input) ==
    [input |-> input, pc |-> "start", weights |-> NULL, faktoren |-> NULL,
     base_weights |-> NULL, adjusted_weights |-> NULL, i |-> 0,
     result |-> None]

InitConcurrent ==
    /\ heap = InitialHeap
    /\ invocations \in [Threads -> {NewInvocation(inp) : inp \in InvocationInputs}]
    /\ pc = None
    /\ args = None
    /\ ret = None
    /\ dimension_scores = None
    /\ context_factors = None
    /\ archetype = None
    /\ is_kmu = None
    /\ call = None
    /\ context_score = None
    /\ archetyp_enum = None
    /\ weights = None
    /\ dynamic_weights = None
    /\ metrics = None
    /\ result = None
    /\ first_result = None
    /\ db = None

sequential_vars ==
    <<dimension_scores, context_factors, archetype, is_kmu, pc, call,
      context_score, archetyp_enum, weights, dynamic_weights, metrics,
      result, first_result, args, ret, db>>

\* weights = _load_base_weights(is_kmu): a dict literal, a new object
R_LoadBaseWeights(t) ==
    LET inv == invocations[t]
        ref == LocalRef("weights", t)
    IN  /\ inv.input.engine = "root"
        /\ inv.pc = "start"
        /\ heap' = [heap EXCEPT ![ref] = _load_base_weights(inv.input.is_kmu)]
        /\ invocations' = [invocations EXCEPT ![t].weights = ref, ![t].pc = "rule1"]
        /\ UNCHANGED sequential_vars

\* weights = rule(weights, ...): the rule writes into the dict `weights`
\* refers to and returns that same dict
R_RuleStep(t, at, next, new_weights) ==
    LET inv == invocations[t]
    IN  /\ inv.input.engine = "root"
        /\ inv.pc = at
        /\ heap' = [heap EXCEPT ![inv.weights] = new_weights]
        /\ invocations' = [invocations EXCEPT ![t].pc = next]
        /\ UNCHANGED sequential_vars

R_Rule1(t) ==
    R_RuleStep(t, "rule1", "rule2",
               _apply_rule_1_tight_gaps(heap[invocations[t].weights],
                                        invocations[t].input.dimension_scores))

R_Rule2(t) ==
    R_RuleStep(t, "rule2", "rule3",
               _apply_rule_2_large_gaps(heap[invocations[t].weights],
                                        invocations[t].input.dimension_scores))

R_Rule3(t) ==
    R_RuleStep(t, "rule3", "rule4",
               _apply_rule_3_high_tension(heap[invocations[t].weights],
                                          invocations[t].input.dimension_scores))

R_Rule4(t) ==
    R_RuleStep(t, "rule4", "rule5",
               _apply_rule_4_context(heap[invocations[t].weights],
                                     invocations[t].input.context_score))

R_Rule5(t) ==
    R_RuleStep(t, "rule5", "get_archetyp_factors",
               _apply_rule_5_above_average(heap[invocations[t].weights],
                                           invocations[t].input.dimension_scores))

\* faktoren = _get_archetyp_factors(archetyp): a dict literal, a new object
R_GetArchetypFactors(t) ==
    LET inv == invocations[t]
        ref == LocalRef("faktoren", t)
    IN  /\ inv.input.engine = "root"
        /\ inv.pc = "get_archetyp_factors"
        /\ heap' = [heap EXCEPT ![ref] = _get_archetyp_factors(inv.input.archetype)]
        /\ invocations' = [invocations EXCEPT ![t].faktoren = ref, ![t].pc = "rule6"]
        /\ UNCHANGED sequential_vars

\* the loop of _apply_rule_6_archetyp over the dict faktoren refers to
R_Rule6(t) ==
    R_RuleStep(t, "rule6", "minimum",
               LET w == heap[invocations[t].weights]
                   faktoren == heap[invocations[t].faktoren]
               IN  [d \in DOMAIN w |->
                       IF d \in DOMAIN faktoren THEN MulDec(w[d], faktoren[d])
                       ELSE w[d]])

R_MinimumSecurity(t) ==
    R_RuleStep(t, "minimum", "normalize",
               _apply_minimum_security(heap[invocations[t].weights]))

\* weights = _normalize_weights(weights); return weights
R_Normalize(t) ==
    LET inv == invocations[t]
    IN  /\ inv.input.engine = "root"
        /\ inv.pc = "normalize"
        /\ invocations' = [invocations EXCEPT
                              ![t].result = _normalize_weights(heap[inv.weights]),
                              ![t].pc = "done"]
        /\ UNCHANGED heap
        /\ UNCHANGED sequential_vars

\* base_weights = cls.ARCHETYPE_WEIGHTS.get(archetype, ...): a reference to
\* the class's own dict, no copy
B_LookupBaseWeights(t) ==
    LET inv == invocations[t]
        name == IF inv.input.archetype \in DOMAIN ARCHETYPE_WEIGHTS
                THEN inv.input.archetype ELSE "BALANCED_TRANSFORMER"
    IN  /\ inv.input.engine = "backend"
        /\ inv.pc = "start"
        /\ invocations' = [invocations EXCEPT
                              ![t].base_weights = ArchetypeWeightsRef(name),
                              ![t].pc = "alloc"]
        /\ UNCHANGED heap
        /\ UNCHANGED sequential_vars

\* adjusted_weights = base_weights: the loop then writes into the class's dict
B_AliasAdjustedWeights(t) ==
    LET inv == invocations[t]
    IN  /\ inv.input.engine = "backend"
        /\ inv.pc = "alloc"
        /\ invocations' = [invocations EXCEPT
                              ![t].adjusted_weights = inv.base_weights,
                              ![t].i = 1, ![t].pc = "loop"]
        /\ UNCHANGED heap
        /\ UNCHANGED sequential_vars

\* adjusted_weights = {}: a new dict
B_AllocAdjustedWeights(t) ==
    LET inv == invocations[t]
        ref == LocalRef("adjusted_weights", t)
    IN  /\ inv.input.engine = "backend"
        /\ inv.pc = "alloc"
        /\ heap' = [heap EXCEPT ![ref] = <<>>]
        /\ invocations' = [invocations EXCEPT
                              ![t].adjusted_weights = ref,
                              ![t].i = 1, ![t].pc = "loop"]
        /\ UNCHANGED sequential_vars

\* one iteration of `for dim_id, weight in base_weights.items()`: the weight
\* is read from the dict when the iteration runs;
\* adjusted_weights[dim_id] = weight * context_factor, kept as
\* weight * (4500 + context_score)
B_LoopStep(t) ==
    LET inv == invocations[t]
        dim_id == DimOrder[inv.i]
        weight == heap[inv.base_weights][dim_id]
        SetItem(dict, key, value) ==
            [k \in DOMAIN dict \cup {key} |-> IF k = key THEN value ELSE dict[k]]
    IN  /\ inv.input.engine = "backend"
        /\ inv.pc = "loop"
        /\ heap' = [heap EXCEPT ![inv.adjusted_weights] =
                       SetItem(@, dim_id, weight * (4500 + inv.input.context_score))]
        /\ invocations' = [invocations EXCEPT
                              ![t].i = inv.i + 1,
                              ![t].pc = IF inv.i = Len(DimOrder) THEN "normalize"
                                        ELSE "loop"]
        /\ UNCHANGED sequential_vars

\* total_weight, normalized_weights and the rounded dict that is returned
B_Normalize(t) ==
    LET inv == invocations[t]
        adjusted_weights == heap[inv.adjusted_weights]
        total_weight == SumOver(adjusted_weights, DimOrder, 1)
    IN  /\ inv.input.engine = "backend"
        /\ inv.pc = "normalize"
        /\ invocations' = [invocations EXCEPT
                              ![t].result = [d \in DOMAIN adjusted_weights |->
                                                RoundHalfEven(1000 * adjusted_weights[d],
                                                              total_weight)],
                              ![t].pc = "done"]
        /\ UNCHANGED heap
        /\ UNCHANGED sequential_vars

NextConcurrent ==
    \E t \in Threads :
        \/ R_LoadBaseWeights(t)
        \/ R_Rule1(t)
        \/ R_Rule2(t)
        \/ R_Rule3(t)
        \/ R_Rule4(t)
        \/ R_Rule5(t)
        \/ R_GetArchetypFactors(t)
        \/ R_Rule6(t)
        \/ R_MinimumSecurity(t)
        \/ R_Normalize(t)
        \/ B_LookupBaseWeights(t)
        \/ B_AllocAdjustedWeights(t)
        \/ B_LoopStep(t)
        \/ B_Normalize(t)

SpecConcurrent == InitConcurrent /\ [][NextConcurrent]_vars

\* what the invocation returns when nothing else runs
ResultAlone(input) ==
    IF input.engine = "root"
    THEN calculate_dynamic_weights(input.dimension_scores, input.context_score,
                                   input.archetype, input.is_kmu)
    ELSE backend_calculate_dynamic_weights(input.archetype, input.context_score)

\* C20: whatever the interleaving of the concurrent invocations, the
\* archetype weight tables and the tension-pair lists of the two classes
\* stay as they were created, no invocation holds a reference to a dict
\* another invocation writes, and every invocation that has returned
\* returned what it returns when it runs alone on its input.
C20_ConcurrentInvocations ==
    /\ \A a \in SharedRefs : heap[a] = InitialHeap[a]
    /\ \A t \in Threads :
          /\ invocations[t].weights \in {NULL, LocalRef("weights", t)}
          /\ invocations[t].adjusted_weights \in {NULL, LocalRef("adjusted_weights", t)}
          /\ invocations[t].pc = "done" =>
                invocations[t].result = ResultAlone(invocations[t].input)

\* a backend invocation has returned while another one, called with a
\* different context score, is inside its loop over the same
\* ARCHETYPE_WEIGHTS entry
C20_Witness ==
    \E t, u \in Threads :
        /\ t # u
        /\ invocations[t].pc = "done"
        /\ invocations[u].pc = "loop" /\ invocations[u].i > 1
        /\ invocations[t].base_weights = invocations[u].base_weights
        /\ invocations[t].base_weights # NULL
        /\ invocations[t].input.context_score # invocations[u].input.context_score

(***************************************************************************)
(* The rules of calculate_dynamic_weights, one by one                      *)
(***************************************************************************)

\* C21 as claimed: step 1 loads the base-weight table of the archetype (the
\* 0.125 table for BALANCED_TRANSFORMER or an unknown archetype, where the
\* KMU table may take its place), and for the three other archetypes the
\* KMU table is never the base
C21_Original ==
    pc = "rule1" =>
        IF archetyp_enum = "BALANCED_TRANSFORMER"
        THEN weights = IF is_kmu THEN KMU_BASE_WEIGHTS ELSE STANDARD_BASE_WEIGHTS
        ELSE /\ weights = [d \in Dims |-> 10000 * ARCHETYPE_WEIGHTS[archetyp_enum][d]]
             /\ weights # KMU_BASE_WEIGHTS

\* the records of the returned recommendations that carry the dimension id d
RecordsOf(d) ==
    {j \in 1..Len(result.recommendations) : result.recommendations[j].dimension_id = d}

\* C22: in the returned recommendations every dimension whose priority
\* (calculate_priority_level of its ist value and gap) is CRITICAL or HIGH
\* has exactly one record, carrying that priority, and a dimension whose
\* priority is MEDIUM or LOW has none.
C22_OneRecordPerUrgentDimension ==
    pc = "done" =>
        \A i \in 1..Len(dimension_scores) :
            LET score == dimension_scores[i]
                priority == calculate_priority_level(score.ist_value, score.gap)
            IN  IF priority \in {"CRITICAL", "HIGH"}
                THEN /\ Cardinality(RecordsOf(score.dimension_id)) = 1
                     /\ \A j \in RecordsOf(score.dimension_id) :
                           result.recommendations[j].priority = priority
                ELSE RecordsOf(score.dimension_id) = {}

\* a call has returned for scores of all four priorities
C22_Witness ==
    /\ pc = "done"
    /\ \A p \in {"CRITICAL", "HIGH", "MEDIUM", "LOW"} :
          \E i \in 1..Len(dimension_scores) :
              calculate_priority_level(dimension_scores[i].ist_value,
                                       dimension_scores[i].gap) = p
    /\ Len(result.recommendations) = 5

\* rule 5 as claimed: a dimension with ist > 3.5 and ist >= soll is
\* multiplied by 0.8 unless it is D3 or D6 while the D6-D3 tension
\* intensity exceeds 3.0
Rule5AsClaimed(w, scores) ==
    LET scores_dict == ScoresDict(scores)
        intensitaet ==
            Abs((scores_dict["D6"].ist_value - scores_dict["D6"].soll_value)
                - (scores_dict["D3"].ist_value - scores_dict["D3"].soll_value))
        critical(d) == d \in {"D3", "D6"} /\ intensitaet > SCHWELLENWERT_SPANNUNG
    IN  [d \in DOMAIN w |->
            IF /\ scores_dict[d].ist_value > SCHWELLENWERT_IST
               /\ scores_dict[d].ist_value >= scores_dict[d].soll_value
               /\ ~critical(d)
            THEN MulDec(w[d], ANPASSUNGSFAKTOR_DAEMPFUNG)
            ELSE w[d]]

\* C23 as claimed: the step of rule 5 multiplies by 0.8 the weight of
\* exactly the dimensions with ist > 3.5 and ist >= soll that are not under
\* critical tension, so that D3 and D6 keep their weight when the D6-D3
\* tension intensity exceeds 3.0
C23_Original ==
    [][(pc = "rule5" /\ Len(dimension_scores) = 8) =>
           weights' = Rule5AsClaimed(weights, dimension_scores)]_vars

\* rule k of the rules 4 to 7 applied to the weights w
ApplyRule(k, w, scores, ctx, archetyp) ==
    CASE k = 4 -> _apply_rule_4_context(w, ctx)
      [] k = 5 -> _apply_rule_5_above_average(w, scores)
      [] k = 6 -> _apply_rule_6_archetyp(w, archetyp)
      [] OTHER -> _apply_minimum_security(w)

RECURSIVE ApplyInOrder(_, _, _, _, _, _)
ApplyInOrder(order, i, w, scores, ctx, archetyp) ==
    IF i > Len(order) THEN w
    ELSE ApplyInOrder(order, i + 1, ApplyRule(order[i], w, scores, ctx, archetyp),
                      scores, ctx, archetyp)

\* the orders in which the rules 4 to 7 can be applied
RuleOrders == {o \in [1..4 -> 4..7] : \A i, j \in 1..4 : i # j => o[i] # o[j]}

\* the weights after rules 1 to 3
AfterRule3(scores, kmu) ==
    _apply_rule_3_high_tension(
        _apply_rule_2_large_gaps(
            _apply_rule_1_tight_gaps(_load_base_weights(kmu), scores),
            scores),
        scores)

\* C24 as claimed: there are eight scores D1..D8, a context and an archetype
\* for which some other order of the rules 4 to 7 returns other weights
\* than the listed order <<4, 5, 6, 7>> (weights that differ after the
\* normalisation differ before it)
C24_Original ==
    pc = "step1" =>
        \E scores \in DimensionScoreInputs \ {<<>>}, kmu \in BOOLEAN :
            LET w3 == AfterRule3(scores, kmu)
            IN  \E factors \in ContextInputs, archetyp \in ArchetypNames :
                    LET ctx == calculate_context_score(factors)
                        listed == ApplyInOrder(<<4, 5, 6, 7>>, 1, w3, scores, ctx, archetyp)
                    IN  \E order \in RuleOrders :
                            LET other == ApplyInOrder(order, 1, w3, scores, ctx, archetyp)
                            IN  /\ other # listed
                                /\ _normalize_weights(other) # _normalize_weights(listed)

\* C24 amended: for eight scores D1..D8 every order of the rules 4 to 7
\* returns the weights of the listed order (the multiplications commute and
\* no weight comes near the floor of 0.01).
C24_OrderOfRules4To7Irrelevant ==
    (pc = "step3" /\ Len(dimension_scores) = 8) =>
        LET w3 == AfterRule3(dimension_scores, is_kmu)
        IN  \A order \in RuleOrders :
                LET other == ApplyInOrder(order, 1, w3, dimension_scores,
                                          context_score, archetyp_enum)
                IN  \/ other = weights
                    \/ _normalize_weights(other) = dynamic_weights

\* weights have been returned after rule 4 (high context), rule 5 (D1
\* dampened) and rule 6 (an archetype with factors) all changed D1
C24_Witness ==
    /\ pc = "step3"
    /\ Len(dimension_scores) = 8
    /\ context_score > SCHWELLENWERT_HOCH
    /\ dimension_scores[1].ist_value > SCHWELLENWERT_IST
    /\ dimension_scores[1].ist_value >= dimension_scores[1].soll_value
    /\ archetyp_enum = "CAUTIOUS_CORPORATE"
    /\ is_kmu

\* the normalised weights rounded half-up to 3 decimals, before any residual
\* is added
RoundedWeights(w) == [d \in Dims |-> QuantizeHalfUp(w[d], WeightSum(w))]

\* C25: the returned weights sum to exactly 1.000; each is its normalised
\* value rounded half-up to 3 decimals, except that when the rounded values
\* do not sum to 1.000 exactly one weight, a largest rounded one, carries
\* the whole residual on top of its rounded value.
C25_ResidualOnLargestWeight ==
    pc = "step3" =>
        LET rounded == RoundedWeights(weights)
            residual == 1000 - WeightSum(rounded)
            changed == {d \in Dims : dynamic_weights[d] # rounded[d]}
        IN  /\ WeightSum(dynamic_weights) = 1000
            /\ IF residual = 0 THEN changed = {}
               ELSE \E g \in Dims :
                       /\ changed = {g}
                       /\ \A d \in Dims : rounded[d] <= rounded[g]
                       /\ dynamic_weights[g] = rounded[g] + residual

\* weights were returned whose rounded values fell short of 1.000 while two
\* dimensions shared the largest rounded value
C25_Witness ==
    /\ pc = "step3"
    /\ LET rounded == RoundedWeights(weights)
       IN  /\ WeightSum(rounded) < 1000
           /\ \E g, h \in Dims :
                 /\ g # h
                 /\ rounded[g] = rounded[h]
                 /\ \A d \in Dims : rounded[d] <= rounded[g]

\* C26: for eight scores D1..D8, once rule 1 and rule 2 have both run every
\* weight is exactly 1.2 times its base weight, whatever the gaps.
C26_Rules1And2ScaleUniformly ==
    (pc = "rule3" /\ Len(dimension_scores) = 8) =>
        \A d \in Dims :
            weights[d] = MulDec(_load_base_weights(is_kmu)[d], ANPASSUNGSFAKTOR)

\* rules 1 and 2 have run on scores with a gap below 1.5, a gap of exactly
\* 1.5 and a gap above 1.5, on the KMU base table
C26_Witness ==
    /\ pc = "rule3"
    /\ Len(dimension_scores) = 8
    /\ is_kmu
    /\ \E i, j, k \in 1..8 :
          /\ dimension_scores[i].gap < SCHWELLENWERT_GAP
          /\ dimension_scores[j].gap = SCHWELLENWERT_GAP
          /\ dimension_scores[k].gap > SCHWELLENWERT_GAP

\* ist - soll of the dimension d in the scores of the call
SignedGapOf(d) ==
    LET score == ScoresDict(dimension_scores)[d]
    IN  score.ist_value - score.soll_value

\* C27: the step of rule 3 on eight scores D1..D8: when the signed gaps of
\* D6 and D3 differ by more than 3.0, the one of the two with the more
\* negative signed gap is multiplied by 1.3 and the other by 1.1; otherwise
\* no weight changes; the six other weights never change.
C27_Rule3HighTension ==
    [][(pc = "rule3" /\ Len(dimension_scores) = 8) =>
           LET tense == Abs(SignedGapOf("D6") - SignedGapOf("D3")) > 30
               behind == IF SignedGapOf("D6") < SignedGapOf("D3") THEN "D6" ELSE "D3"
           IN  \A d \in Dims :
                   weights'[d] =
                       IF tense /\ d = behind THEN (13 * weights[d]) \div 10
                       ELSE IF tense /\ d \in {"D3", "D6"} THEN (11 * weights[d]) \div 10
                       ELSE weights[d]]_vars

\* rule 3 has run on a tension of more than 3.0 with D6 further behind:
\* D6 stands at 1.3 and D3 at 1.1 times the weight rules 1 and 2 left
C27_Witness ==
    /\ pc = "rule4"
    /\ Len(dimension_scores) = 8
    /\ SignedGapOf("D3") - SignedGapOf("D6") > 30
    /\ weights["D6"] = (13 * ((12 * _load_base_weights(is_kmu)["D6"]) \div 10)) \div 10
    /\ weights["D3"] = (11 * ((12 * _load_base_weights(is_kmu)["D3"]) \div 10)) \div 10
    /\ weights["D1"] = (12 * _load_base_weights(is_kmu)["D1"]) \div 10

\* C29: in the returned dict every id of metadata.critical_dimensions is
\* also in metadata.high_priority_dimensions, and every id of
\* metadata.high_priority_dimensions has a record in recommendations whose
\* priority is CRITICAL or HIGH
C29_PriorityListsAndRecommendations ==
    (pc = "done" /\ Len(dimension_scores) > 0) =>
        LET critical == SeqToSet(result.metadata.critical_dimensions)
            high == SeqToSet(result.metadata.high_priority_dimensions)
            recs == result.recommendations
        IN  /\ critical \subseteq high
            /\ \A id \in high :
                  \E k \in 1..Len(recs) :
                      /\ recs[k].dimension_id = id
                      /\ recs[k].priority \in {"CRITICAL", "HIGH"}

\* C29 witness: a result with a critical dimension, a high-priority
\* dimension that is not critical, and a recommended dimension that is in
\* neither list
C29_Witness ==
    /\ pc = "done"
    /\ Len(dimension_scores) > 0
    /\ LET critical == SeqToSet(result.metadata.critical_dimensions)
           high == SeqToSet(result.metadata.high_priority_dimensions)
           recs == result.recommendations
       IN  /\ critical # {}
           /\ high \ critical # {}
           /\ \E k \in 1..Len(recs) : recs[k].dimension_id \notin high

----------------------------------------------------------------------------
(* The backend's calculate_dynamic_weights, under SpecUnits *)

\* C30: for every context score in 0.000..1.000 the backend's
\* calculate_dynamic_weights returns the base weights of the archetype (of
\* BALANCED_TRANSFORMER for a name without a table), whatever the context
\* score, and the returned weights sum to 1.0
C30_BackendWeightsIgnoreContext ==
    Returned_from("backend.calculate_dynamic_weights") =>
        LET base_weights == IF args.archetype \in DOMAIN ARCHETYPE_WEIGHTS
                            THEN ARCHETYPE_WEIGHTS[args.archetype]
                            ELSE ARCHETYPE_WEIGHTS["BALANCED_TRANSFORMER"]
        IN  /\ \A d \in Dims : ret[d] = base_weights[d]
            /\ SumOver(ret, DimOrder, 1) = 1000

\* C30 witness: STAGNANT_ESTABLISHED at context score 1.0, where every weight
\* was multiplied by 1.1 before the normalisation, returns D8 = 0.05
C30_Witness ==
    /\ Returned_from("backend.calculate_dynamic_weights")
    /\ args.archetype = "STAGNANT_ESTABLISHED"
    /\ args.context_score = 1000
    /\ ret["D8"] = 50
    /\ ret["D2"] = 180

----------------------------------------------------------------------------
(* The completion requests for one stored assessment, under SpecUnits *)

\* the request is for an assessment that is stored with status COMPLETED
AssessmentIsCompleted ==
    /\ args.fn = "complete_assessment"
    /\ args.assessment_found
    /\ db.assessment.status = "COMPLETED"

\* C28: once the stored assessment has status COMPLETED no step of a
\* completion request changes the assessment, its metrics or its stored
\* scores, and the handler answers a request that reaches it with HTTP 400
\* "Assessment is already completed"; the status becomes COMPLETED only in
\* the commit of CRUDAssessment.complete_assessment, which in the same step
\* sets completion_percentage to 100 and writes the five metrics it returns
C28_CompletedStaysCompleted ==
    [][/\ AssessmentIsCompleted => db' = db
       /\ (AssessmentIsCompleted /\ pc = "validated") =>
              /\ pc' = "raised"
              /\ ret' = HTTPException(400, "Assessment is already completed")
       /\ (/\ args.fn = "complete_assessment"
           /\ args.assessment_found
           /\ db.assessment.status # "COMPLETED"
           /\ db'.assessment.status = "COMPLETED") =>
              /\ pc = "checked"
              /\ pc' = "returned"
              /\ db'.assessment.completion_percentage = 100
              /\ \E completed \in complete_assessment(
                                      [subdimension_scores |-> args.subdimension_scores,
                                       context_factors |-> args.context_factors],
                                      args.organisation_archetype) :
                    /\ ret' = completed
                    /\ \A metric \in {"overall_rgi", "overall_eqi", "overall_si",
                                       "overall_sbs", "context_score"} :
                          db'.assessment[metric] = completed.assessment[metric]
      ]_vars

\* C28 witness: a request with the sixteen scores at 2.5 and ten context
\* factors has been answered with HTTP 400 for an assessment that an earlier
\* request completed with D1 at 1.0 and no context factors
C28_Witness ==
    /\ AssessmentIsCompleted
    /\ pc = "raised"
    /\ ret = HTTPException(400, "Assessment is already completed")
    /\ args.subdimension_scores = BasePayload
    /\ Len(args.context_factors) > 0
    /\ Len(db.dimension_scores) = 8
    /\ db.dimension_scores[1].ist_value = 10
    /\ db.context_factors = <<>>

====
